---- MODULE Spec2Model ----
(***************************************************************************)
(* FlatDB (src/src/flatdb.js): an embedded document store.  The source    *)
(* file holds two generations of the engine: the binary-storage version   *)
(* (lines 1-565) and the earlier version (lines 567-954).  A database is   *)
(* driven by exactly one of them; the variable ver says which.            *)
(*                                                                         *)
(* JavaScript values are tagged pairs <<type, payload>>.  Records,        *)
(* documents and patches are functions over Fields in which Undefined      *)
(* stands for an absent property.  Positions in indexes are 0-based as in *)
(* the source.                                                             *)
(***************************************************************************)
EXTENDS Integers, Sequences, FiniteSets, TLC

\* ------------------------------------------------------------------ bounds
MaxRecords == 2      \* records inserted (ids generated) in one behaviour
MaxClock == 1        \* last reading of the clock

\* the maxBinarySize option the database is opened with (flatdb.js:527),
\* scaled down to the payload sizes of the model
MaxBinarySize == 2

TableNames == {"users", "posts"}
Fields == {"_id", "k", "data", "data_metadata", "createdAt", "updatedAt"}

\* ---------------------------------------------------------- JS values
Undefined == <<"undefined", 0>>
Null == <<"null", 0>>
Num(n) == <<"number", n>>
Str(s) == <<"string", s>>
Bool(b) == <<"boolean", b>>
Buf(bytes) == <<"buffer", bytes>>
Obj(o) == <<"object", o>>
Arr(a) == <<"array", a>>

\* typeof
TypeOf(v) == IF v[1] \in {"buffer", "array", "null"} THEN "object" ELSE v[1]

\* ToBoolean, as used by if (x) / x && ...
Truthy(v) ==
    CASE v[1] \in {"undefined", "null"} -> FALSE
      [] v[1] = "number" -> v[2] # 0
      [] v[1] = "string" -> v[2] # ""
      [] v[1] = "boolean" -> v[2]
      [] OTHER -> TRUE

HexDigits == "0123456789abcdef"
HexByte(b) == SubSeq(HexDigits, (b \div 16) + 1, (b \div 16) + 1)
              \o SubSeq(HexDigits, (b % 16) + 1, (b % 16) + 1)

\* Buffer.toString(), for the bytes used here (ASCII letters)
Ascii == "ABCDEFGHIJKLMNOPQRSTUVWXYZ"
RECURSIVE Utf8(_)
Utf8(bytes) ==
    IF bytes = <<>> THEN ""
    ELSE (IF Head(bytes) \in 65..90
            THEN SubSeq(Ascii, Head(bytes) - 64, Head(bytes) - 64)
            ELSE "?") \o Utf8(Tail(bytes))

\* the property key a value is coerced to in obj[value]
ToKey(v) ==
    CASE v[1] = "undefined" -> "undefined"
      [] v[1] = "null" -> "null"
      [] v[1] = "number" -> ToString(v[2])
      [] v[1] = "string" -> v[2]
      [] v[1] = "boolean" -> IF v[2] THEN "true" ELSE "false"
      [] v[1] = "buffer" -> Utf8(v[2])
      [] OTHER -> "[object Object]"

\* a === b: primitives by type and value, objects never equal to a copy
StrictEq(a, b) ==
    a = b /\ a[1] \in {"undefined", "null", "number", "string", "boolean"}

\* ToNumber of a primitive; Undefined stands for NaN
ToNumber(v) ==
    CASE v[1] = "number" -> v
      [] v[1] = "boolean" -> Num(IF v[2] THEN 1 ELSE 0)
      [] v[1] = "null" -> Num(0)
      [] v[1] = "string" ->
            IF v[2] = "" THEN Num(0)
            ELSE IF \E n \in 0..9 : ToString(n) = v[2]
                 THEN Num(CHOOSE n \in 0..9 : ToString(n) = v[2])
                 ELSE Undefined
      [] OTHER -> Undefined

\* code-unit order of the characters that occur in the model's strings
Alphabet == " 0123456789:ABCDEFGHIJKLMNOPQRSTUVWXYZ_abcdefghijklmnopqrstuvwxyz"
CharRank(c) == IF \E i \in 1..Len(Alphabet) : SubSeq(Alphabet, i, i) = c
               THEN CHOOSE i \in 1..Len(Alphabet) : SubSeq(Alphabet, i, i) = c
               ELSE 0
RECURSIVE StrLess(_, _)
StrLess(s, t) ==
    IF t = "" THEN FALSE
    ELSE IF s = "" THEN TRUE
    ELSE LET cs == CharRank(SubSeq(s, 1, 1))
             ct == CharRank(SubSeq(t, 1, 1))
         IN IF cs # ct THEN cs < ct
            ELSE StrLess(SubSeq(s, 2, Len(s)), SubSeq(t, 2, Len(t)))

\* a < b (abstract relational comparison); false when either side is NaN
JsLess(a, b) ==
    IF a[1] = "string" /\ b[1] = "string" THEN StrLess(a[2], b[2])
    ELSE LET x == ToNumber(a)
             y == ToNumber(b)
         IN x # Undefined /\ y # Undefined /\ x[2] < y[2]

\* a <= b
JsLessEq(a, b) ==
    IF a[1] = "string" /\ b[1] = "string" THEN ~StrLess(b[2], a[2])
    ELSE LET x == ToNumber(a)
             y == ToNumber(b)
         IN x # Undefined /\ y # Undefined /\ x[2] <= y[2]

\* value.length
LengthOf(v) ==
    CASE v[1] \in {"buffer", "array"} -> Num(Len(v[2]))
      [] v[1] = "string" -> Num(Len(v[2]))
      [] OTHER -> Undefined

\* crypto sha256 hex digest: a collision-free function of the bytes
RECURSIVE Sha256(_)
Sha256(bytes) ==
    IF bytes = <<>> THEN "e3" ELSE HexByte(Head(bytes)) \o Sha256(Tail(bytes))

\* ------------------------------------------------------------ Schema
\* a rule descriptor; "" / Undefined stand for a key the rule does not have
NoRule == [type |-> "", required |-> FALSE, min |-> Undefined,
           max |-> Undefined, maxSize |-> Undefined]

\* the schemas the model's callers pass to db.table(); "none" is no schema
UserSchema == [k |-> [NoRule EXCEPT !.type = "number", !.required = TRUE,
                                    !.min = Num(0), !.max = Num(2)]]
PostSchema == [k |-> [NoRule EXCEPT !.type = "number"],
               data |-> [NoRule EXCEPT !.type = "binary"]]
\* a schema whose binary field declares its own maxSize
LimitSchema(n) == [k |-> [NoRule EXCEPT !.type = "number"],
                   data |-> [NoRule EXCEPT !.type = "binary", !.maxSize = Num(n)]]
\* the limits so declared: none, one below and one above the database's
Limits == {0, 1, 3}
LimitName(n) == "Limit" \o ToString(n)
SchemaDef(s) ==
    IF s = "UserSchema" THEN UserSchema
    ELSE IF s = "PostSchema" THEN PostSchema
    ELSE LimitSchema(CHOOSE n \in 0..9 : s = LimitName(n))

\* Schema.validate, one field: the set of violated rules
FieldErrors(v, field, rules, val) ==
    IF rules.required /\ val \in {Undefined, Null} THEN {<<field, "required">>}
    ELSE IF val \in {Undefined, Null} THEN {}
    ELSE (IF v = "binary" /\ rules.type = "binary"
            THEN (IF val[1] # "buffer" THEN {<<field, "Buffer">>} ELSE {})
                 \cup (IF Truthy(rules.maxSize) /\ JsLess(rules.maxSize, LengthOf(val))
                         THEN {<<field, "maxSize">>} ELSE {})
            ELSE IF rules.type # "" /\ TypeOf(val) # rules.type
                   THEN {<<field, "type">>} ELSE {})
         \cup (IF rules.type = "number" /\ rules.min # Undefined /\ JsLess(val, rules.min)
                 THEN {<<field, "min">>} ELSE {})
         \cup (IF rules.type = "number" /\ rules.max # Undefined /\ JsLess(rules.max, val)
                 THEN {<<field, "max">>} ELSE {})

SchemaValidate(v, def, data) ==
    UNION {FieldErrors(v, f, def[f], data[f]) : f \in DOMAIN def}

\* FlatDB.table (binary version): binary rules without maxSize get the
\* database-wide limit
ApplyGlobalLimit(def) ==
    [f \in DOMAIN def |->
        IF def[f].type = "binary" /\ ~Truthy(def[f].maxSize)
        THEN [def[f] EXCEPT !.maxSize = Num(MaxBinarySize)]
        ELSE def[f]]

\* the schema definition a handle validates against
HandleSchema(v, h) ==
    IF v = "binary" THEN ApplyGlobalLimit(SchemaDef(h.schema)) ELSE SchemaDef(h.schema)

\* Table._validateData
ValidateData(v, h, data) ==
    IF h.schema = "none" THEN {} ELSE SchemaValidate(v, HandleSchema(v, h), data)

\* ------------------------------------------------------------ Matcher
\* haystack.includes(needle), for a non-empty needle (bytes or characters)
Includes(haystack, needle) ==
    \E i \in 0..(Len(haystack) - Len(needle)) :
        SubSeq(haystack, i + 1, i + Len(needle)) = needle

\* new RegExp(val).test(rv) for a pattern of plain characters: the pattern
\* occurs in String(rv)
RegExpTest(val, rv) == Includes(ToKey(rv), ToKey(val))

\* _matchesQuery with every operator key taken as holding when it is not
\* a recognized one
MatchOp_FailOpen(op, val, rv) ==
    CASE op = "$gt" -> JsLess(val, rv)
      [] op = "$gte" -> JsLessEq(val, rv)
      [] op = "$lt" -> JsLess(rv, val)
      [] op = "$lte" -> JsLessEq(rv, val)
      [] op = "$ne" -> ~StrictEq(rv, val)
      [] op = "$in" -> val[1] = "array" /\ \E i \in 1..Len(val[2]) : StrictEq(val[2][i], rv)
      [] op = "$nin" -> val[1] = "array" /\ ~\E i \in 1..Len(val[2]) : StrictEq(val[2][i], rv)
      [] op = "$exists" -> StrictEq(Bool(rv # Undefined), val)
      [] op = "$regex" -> RegExpTest(val, rv)
      [] OTHER -> TRUE

\* one operator of an operator object against record[key]
MatchOp(op, val, rv) ==
    CASE op = "$gt" -> JsLess(val, rv)
      [] op = "$gte" -> JsLessEq(val, rv)
      [] op = "$lt" -> JsLess(rv, val)
      [] op = "$lte" -> JsLessEq(rv, val)
      [] op = "$ne" -> ~StrictEq(rv, val)
      [] op = "$in" -> val[1] = "array" /\ \E i \in 1..Len(val[2]) : StrictEq(val[2][i], rv)
      [] op = "$nin" -> val[1] = "array" /\ ~\E i \in 1..Len(val[2]) : StrictEq(val[2][i], rv)
      [] op = "$exists" -> StrictEq(Bool(rv # Undefined), val)
      [] op = "$regex" -> RegExpTest(val, rv)
      [] OTHER -> FALSE

\* _matchesQuery with some() in place of every() over the query's fields
MatchesQuery_AnyField(record, query) ==
    \E key \in DOMAIN query :
        LET value == query[key]
            rv == IF key \in DOMAIN record THEN record[key] ELSE Undefined
        IN IF Truthy(value) /\ TypeOf(value) = "object"
           THEN IF value[1] = "object"
                THEN \A op \in DOMAIN value[2] : MatchOp(op, value[2][op], rv)
                ELSE Len(value[2]) = 0
           ELSE StrictEq(rv, value)

\* Table._matchesQuery: query is a function from its keys to a literal or
\* to an operator object Obj(function from operator names to operands)
MatchesQuery(record, query) ==
    \A key \in DOMAIN query :
        LET value == query[key]
            rv == IF key \in DOMAIN record THEN record[key] ELSE Undefined
        IN IF Truthy(value) /\ TypeOf(value) = "object"
           THEN IF value[1] = "object"
                THEN \A op \in DOMAIN value[2] : MatchOp(op, value[2][op], rv)
                ELSE Len(value[2]) = 0
           ELSE StrictEq(rv, value)

\* ------------------------------------------------------------ Index
EmptyObj == [x \in {} |-> 0]

\* if (!index[value]) index[value] = []; index[value].push(pos)
IndexPush(index, value, pos) ==
    LET key == ToKey(value)
    IN IF key \in DOMAIN index
       THEN [index EXCEPT ![key] = Append(@, pos)]
       ELSE index @@ (key :> <<pos>>)

\* records.forEach((record, idx) => push idx under record[field])
RECURSIVE IndexRecords(_, _, _, _)
IndexRecords(records, field, from, index) ==
    IF from > Len(records) THEN index
    ELSE IndexRecords(records, field, from + 1,
                      IndexPush(index, records[from][field], from - 1))

\* an index built with positions counted from 1
BuildIndex_FromOne(records, field) ==
    LET index == IndexRecords(records, field, 1, EmptyObj)
    IN [key \in DOMAIN index |-> [i \in 1..Len(index[key]) |-> index[key][i] + 1]]

BuildIndex(records, field) == IndexRecords(records, field, 1, EmptyObj)

\* the positions Table.find selects, in the order it returns them
FindPositions(tbl, query) ==
    LET indexed == {f \in DOMAIN query : f \in DOMAIN tbl.indexes}
        all == [i \in 1..Len(tbl.records) |-> i - 1]
        Hit(p) == MatchesQuery(tbl.records[p + 1], query)
    IN IF indexed # {}
       THEN LET field == CHOOSE f \in indexed : TRUE
            IN IF TypeOf(query[field]) # "object"
               THEN LET key == ToKey(query[field])
                        bucket == IF key \in DOMAIN tbl.indexes[field]
                                  THEN tbl.indexes[field][key] ELSE <<>>
                    IN SelectSeq(bucket, Hit)
               ELSE SelectSeq(all, Hit)
       ELSE SelectSeq(all, Hit)

\* Table.find: the records at those positions
Find(tbl, query) ==
    LET ps == FindPositions(tbl, query)
    IN [i \in 1..Len(ps) |-> tbl.records[ps[i] + 1]]

\* ------------------------------------------------------------ state
VARIABLES
    ver,        \* which generation of the engine runs: "binary" or "earlier"
    tables,     \* db.data.tables: name -> [records, indexes, foreignKeys]
    blobs,      \* the <name>_binary directories: name -> (file name -> bytes)
    contents,   \* history: name -> the payloads _storeBinaryData was given
    disk,       \* the snapshot last written by db.save()
    handles,    \* the Table handles the caller has obtained from db.table()
    nextId,     \* ordinal of the next generated _id
    now,        \* the last reading of the clock
    last,       \* the last call: [op, h, arg, status, ret]
    written,    \* the file names the last call passed to fs.writeFile, in order
    tasks       \* the calls that are suspended at an await, in the order issued

vars == <<ver, tables, blobs, contents, disk, handles, nextId, now, last, written,
         tasks>>

NewTable == [records |-> <<>>, indexes |-> EmptyObj, foreignKeys |-> EmptyObj]

\* a first reference that assigns the empty table without looking for one
EnsureTableExists_Resetting(tbls, name) ==
    [n \in DOMAIN tbls \cup {name} |-> IF n = name THEN NewTable ELSE tbls[n]]

\* Table._ensureTableExists, the part that touches db.data
EnsureTableExists(tbls, name) ==
    IF name \in DOMAIN tbls THEN tbls ELSE tbls @@ (name :> NewTable)

\* Date.now().toString(36) + Math.random().toString(36).substr(2)
GenId(n) == Str("id" \o ToString(n))
\* new Date().toISOString()
Iso(t) == Str("T" \o ToString(t))
\* the clock readings an operation may see
Clock == {t \in {now, now + 1} : t <= MaxClock}

Result(op, h, arg, status, ret) ==
    [op |-> op, h |-> h, arg |-> arg, status |-> status, ret |-> ret]

\* Table._detectMimeType
DetectMimeType(bytes) ==
    IF Len(bytes) < 4 THEN "application/octet-stream"
    ELSE IF bytes[1] = 255 /\ bytes[2] = 216 THEN "image/jpeg"
    ELSE IF bytes[1] = 137 /\ bytes[2] = 80 THEN "image/png"
    ELSE IF bytes[1] = 71 /\ bytes[2] = 73 THEN "image/gif"
    ELSE IF bytes[1] = 37 /\ bytes[2] = 80 THEN "application/pdf"
    ELSE "application/octet-stream"

\* a file name taken from the size of the payload instead of its digest
BlobName_BySize(bytes) == ToString(Len(bytes))

\* the file name a payload is stored under
BlobName(bytes) == Sha256(bytes)

\* Table._storeBinaryData: the processed document, the directory after the
\* writes, the payloads and the file names given to fs.writeFile (the schemas
\* of the model have one binary field at most)
StoreBinaryData(h, data, dir) ==
    LET def == IF h.schema = "none" THEN EmptyObj ELSE HandleSchema("binary", h)
        bin == {f \in DOMAIN def : def[f].type = "binary" /\ Truthy(data[f])}
        Meta(f) == Obj([size |-> Len(data[f][2]), hash |-> Sha256(data[f][2]),
                        mimeType |-> DetectMimeType(data[f][2])])
        names == {BlobName(data[f][2]) : f \in bin}
    IN [processedData |->
            [f \in Fields |->
                IF f \in bin THEN Str("binary:" \o Sha256(data[f][2]))
                ELSE IF \E g \in bin : f = g \o "_metadata"
                     THEN Meta(CHOOSE g \in bin : f = g \o "_metadata")
                     ELSE data[f]],
        dir |-> [n \in DOMAIN dir \cup names |->
                    IF n \in names
                    THEN data[CHOOSE f \in bin : BlobName(data[f][2]) = n][2]
                    ELSE dir[n]],
        put |-> {data[f][2] : f \in bin},
        writes |-> IF names = {} THEN <<>> ELSE <<CHOOSE n \in names : TRUE>>]

\* { _id: id, ...processedData, createdAt: ... }
NewRecord(id, processedData, t) ==
    [f \in Fields |->
        IF f = "createdAt" THEN Iso(t)
        ELSE IF processedData[f] # Undefined THEN processedData[f]
        ELSE IF f = "_id" THEN id ELSE Undefined]

\* a push that leaves the indexes as they were
PushRecord_NoIndex(tbl, record) == [tbl EXCEPT !.records = Append(@, record)]

\* table.records.push(record) followed by the index update of insert
PushRecord(tbl, record) ==
    [tbl EXCEPT !.records = Append(@, record),
                !.indexes = [f \in DOMAIN @ |->
                                IndexPush(@[f], record[f], Len(tbl.records))]]

\* the foreign keys of tbl a document has to satisfy: if (data[field])
CheckedKeys(tbl, data) == {f \in DOMAIN tbl.foreignKeys : Truthy(data[f])}

\* db.table(reference.table) for every checked key (the tables of the model
\* have at most one foreign key each)
EnsureReferenced(tbls, tbl, data) ==
    LET refs == {tbl.foreignKeys[f].table : f \in CheckedKeys(tbl, data)}
    IN [n \in DOMAIN tbls \cup refs |-> IF n \in DOMAIN tbls THEN tbls[n] ELSE NewTable]

\* refTable.findOne({[reference.field]: data[field]}) finds nothing
KeyFails(tbls, tbl, data, f) ==
    LET ref == tbl.foreignKeys[f]
    IN Find(tbls[ref.table], ref.field :> data[f]) = <<>>

Init ==
    /\ ver = "binary"
    /\ tables = EmptyObj
    /\ blobs = [n \in TableNames |-> EmptyObj]
    /\ contents = [n \in TableNames |-> {}]
    /\ disk = EmptyObj
    /\ handles = {}
    /\ nextId = 1
    /\ now = 0
    /\ last = Result("connect", "", "", "ok", "")
    /\ written = <<>>
    /\ tasks = <<>>

\* FlatDB.table(name, schema)
Table(h) ==
    /\ tables' = EnsureTableExists(tables, h.name)
    /\ handles' = handles \cup {h}
    /\ last' = Result("table", h, "", "ok", "")
    /\ written' = <<>>
    /\ tasks' = tasks
    /\ UNCHANGED <<ver, blobs, contents, disk, nextId, now>>

\* Table.createIndex(field)
CreateIndex(h, field) ==
    /\ h \in handles
    /\ LET tbl == tables[h.name]
           idx == BuildIndex(tbl.records, field)
       IN tables' = [tables EXCEPT ![h.name].indexes =
                        [f \in DOMAIN @ \cup {field} |-> IF f = field THEN idx ELSE @[f]]]
    /\ disk' = tables'
    /\ last' = Result("createIndex", h, field, "ok", "")
    /\ written' = <<>>
    /\ tasks' = tasks
    /\ UNCHANGED <<ver, blobs, contents, handles, nextId, now>>

\* an addForeignKey that also drops the records of the table whose value has
\* no row in the referenced table
AddForeignKey_Purging(h, field, refTable, refField) ==
    /\ h \in handles
    /\ LET ref == [table |-> refTable, field |-> refField]
           Refers(record) ==
                \/ ~Truthy(record[field])
                \/ /\ refTable \in DOMAIN tables
                   /\ Find(tables[refTable], refField :> record[field]) # <<>>
       IN tables' = [tables EXCEPT
                        ![h.name].foreignKeys =
                            [f \in DOMAIN @ \cup {field} |-> IF f = field THEN ref ELSE @[f]],
                        ![h.name].records = SelectSeq(@, Refers)]
    /\ disk' = tables'
    /\ last' = Result("addForeignKey", h, field, "ok", "")
    /\ written' = <<>>
    /\ tasks' = tasks
    /\ UNCHANGED <<ver, blobs, contents, handles, nextId, now>>

\* Table.addForeignKey(field, referenceTable, referenceField)
AddForeignKey(h, field, refTable, refField) ==
    /\ h \in handles
    /\ LET ref == [table |-> refTable, field |-> refField]
       IN tables' = [tables EXCEPT ![h.name].foreignKeys =
                        [f \in DOMAIN @ \cup {field} |-> IF f = field THEN ref ELSE @[f]]]
    /\ disk' = tables'
    /\ last' = Result("addForeignKey", h, field, "ok", "")
    /\ written' = <<>>
    /\ tasks' = tasks
    /\ UNCHANGED <<ver, blobs, contents, handles, nextId, now>>

\* Table.insert(data), binary-storage version
InsertBinary(h, data, t) ==
    /\ ver = "binary"
    /\ h \in handles
    /\ IF ValidateData(ver, h, data) # {}
       THEN /\ last' = Result("insert", h, data, "ValidationError", "")
            /\ written' = <<>>
            /\ tasks' = tasks
            /\ UNCHANGED <<tables, blobs, contents, disk, nextId, now>>
       ELSE LET st == StoreBinaryData(h, data, blobs[h.name])
                record == NewRecord(GenId(nextId), st.processedData, t)
            IN /\ nextId <= MaxRecords
               /\ blobs' = [blobs EXCEPT ![h.name] = st.dir]
               /\ contents' = [contents EXCEPT ![h.name] = @ \cup st.put]
               /\ written' = st.writes
               /\ tasks' = tasks
               /\ tables' = [tables EXCEPT ![h.name] = PushRecord(@, record)]
               /\ disk' = tables'
               /\ nextId' = nextId + 1
               /\ now' = t
               /\ last' = Result("insert", h, data, "ok", record)
    /\ UNCHANGED <<ver, handles>>

\* Table.insert(data), earlier version
InsertEarlier(h, data, t) ==
    /\ ver = "earlier"
    /\ h \in handles
    /\ IF ValidateData(ver, h, data) # {}
       THEN /\ last' = Result("insert", h, data, "ValidationError", "")
            /\ UNCHANGED <<tables, disk, nextId, now>>
       ELSE LET tbl == tables[h.name]
                ensured == EnsureReferenced(tables, tbl, data)
            IN IF \E f \in CheckedKeys(tbl, data) : KeyFails(ensured, tbl, data, f)
               THEN /\ tables' = ensured
                    /\ last' = Result("insert", h, data, "ForeignKeyError", "")
                    /\ UNCHANGED <<disk, nextId, now>>
               ELSE LET record == NewRecord(GenId(nextId), data, t)
                    IN /\ nextId <= MaxRecords
                       /\ tables' = [ensured EXCEPT ![h.name] = PushRecord(@, record)]
                       /\ disk' = tables'
                       /\ nextId' = nextId + 1
                       /\ now' = t
                       /\ last' = Result("insert", h, data, "ok", record)
    /\ written' = <<>>
    /\ tasks' = tasks
    /\ UNCHANGED <<ver, blobs, contents, handles>>

\* the insertion pass of insertMany: documents appended one after another
RECURSIVE InsertAll(_, _, _, _, _, _)
InsertAll(h, tbl, dir, docs, n, t) ==
    IF docs = <<>>
    THEN [tbl |-> tbl, dir |-> dir, records |-> <<>>, put |-> {}, writes |-> <<>>]
    ELSE LET st == IF ver = "binary" THEN StoreBinaryData(h, Head(docs), dir)
                   ELSE [processedData |-> Head(docs), dir |-> dir, put |-> {},
                         writes |-> <<>>]
             record == NewRecord(GenId(n), st.processedData, t)
             rest == InsertAll(h, PushRecord(tbl, record), st.dir, Tail(docs), n + 1, t)
         IN [rest EXCEPT !.records = <<record>> \o @, !.put = st.put \cup @,
                         !.writes = st.writes \o @]

\* a validation pass that looks at the first document only
ValidationPassFails_FirstOnly(h, docs) ==
    ValidateData(ver, h, docs[1]) # {}

\* insertMany, "Validate all documents first": some document is refused
ValidationPassFails(h, docs) ==
    \E i \in 1..Len(docs) : ValidateData(ver, h, docs[i]) # {}

\* the first document of the batch that has a checked key
FirstChecked(tbl, docs) ==
    CHOOSE i \in 1..Len(docs) :
        /\ CheckedKeys(tbl, docs[i]) # {}
        /\ \A j \in 1..(i - 1) : CheckedKeys(tbl, docs[j]) = {}

\* Table.insertMany(documents), binary-storage version.  db.table() is
\* async there, so refTable is a promise and refTable.findOne throws a
\* TypeError at the first checked key, after the table was ensured.
InsertManyBinary(h, docs, t) ==
    /\ ver = "binary"
    /\ h \in handles
    /\ LET tbl == tables[h.name]
       IN IF ValidationPassFails(h, docs)
          THEN /\ last' = Result("insertMany", h, docs, "ValidationError", "")
               /\ written' = <<>>
               /\ tasks' = tasks
               /\ UNCHANGED <<tables, blobs, contents, disk, nextId, now>>
          ELSE IF \E i \in 1..Len(docs) : CheckedKeys(tbl, docs[i]) # {}
          THEN /\ tables' = EnsureReferenced(tables, tbl, docs[FirstChecked(tbl, docs)])
               /\ last' = Result("insertMany", h, docs, "TypeError", "")
               /\ written' = <<>>
               /\ tasks' = tasks
               /\ UNCHANGED <<blobs, contents, disk, nextId, now>>
          ELSE LET r == InsertAll(h, tbl, blobs[h.name], docs, nextId, t)
               IN /\ nextId + Len(docs) <= MaxRecords + 1
                  /\ tables' = [tables EXCEPT ![h.name] = r.tbl]
                  /\ blobs' = [blobs EXCEPT ![h.name] = r.dir]
                  /\ contents' = [contents EXCEPT ![h.name] = @ \cup r.put]
                  /\ written' = r.writes
                  /\ tasks' = tasks
                  /\ disk' = tables'
                  /\ nextId' = nextId + Len(docs)
                  /\ now' = t
                  /\ last' = Result("insertMany", h, docs, "ok", r.records)
    /\ UNCHANGED <<ver, handles>>

\* the tables after the foreign-key pass of insertMany (earlier version):
\* every reference up to the first failing document has been ensured
RECURSIVE KeyPass(_, _, _)
KeyPass(tbls, tbl, docs) ==
    IF docs = <<>> THEN [tbls |-> tbls, failed |-> FALSE]
    ELSE LET ensured == EnsureReferenced(tbls, tbl, Head(docs))
         IN IF \E f \in CheckedKeys(tbl, Head(docs)) : KeyFails(ensured, tbl, Head(docs), f)
            THEN [tbls |-> ensured, failed |-> TRUE]
            ELSE KeyPass(ensured, tbl, Tail(docs))

\* Table.insertMany(documents), earlier version
InsertManyEarlier(h, docs, t) ==
    /\ ver = "earlier"
    /\ h \in handles
    /\ LET tbl == tables[h.name]
           pass == KeyPass(tables, tbl, docs)
       IN IF ValidationPassFails(h, docs)
          THEN /\ last' = Result("insertMany", h, docs, "ValidationError", "")
               /\ UNCHANGED <<tables, disk, nextId, now>>
          ELSE IF pass.failed
          THEN /\ tables' = pass.tbls
               /\ last' = Result("insertMany", h, docs, "ForeignKeyError", "")
               /\ UNCHANGED <<disk, nextId, now>>
          ELSE LET r == InsertAll(h, pass.tbls[h.name], blobs[h.name], docs, nextId, t)
               IN /\ nextId + Len(docs) <= MaxRecords + 1
                  /\ tables' = [pass.tbls EXCEPT ![h.name] = r.tbl]
                  /\ disk' = tables'
                  /\ nextId' = nextId + Len(docs)
                  /\ now' = t
                  /\ last' = Result("insertMany", h, docs, "ok", r.records)
    /\ written' = <<>>
    /\ tasks' = tasks
    /\ UNCHANGED <<ver, blobs, contents, handles>>

\* Table.find(query)
FindOp(h, query) ==
    /\ h \in handles
    /\ last' = Result("find", h, query, "ok", Find(tables[h.name], query))
    /\ written' = <<>>
    /\ tasks' = tasks
    /\ UNCHANGED <<ver, tables, blobs, contents, disk, handles, nextId, now>>

\* Table._matchesQuery(record, query) applied to the i-th stored record
MatchesQueryOp(h, i, query) ==
    /\ h \in handles
    /\ i \in 1..Len(tables[h.name].records)
    /\ LET record == tables[h.name].records[i]
       IN last' = Result("_matchesQuery", h, [record |-> record, query |-> query],
                         "ok", Bool(MatchesQuery(record, query)))
    /\ written' = <<>>
    /\ tasks' = tasks
    /\ UNCHANGED <<ver, tables, blobs, contents, disk, handles, nextId, now>>

\* Object.assign(record, update, { updatedAt })
Assign(record, update, t) ==
    [f \in Fields |->
        IF f = "updatedAt" THEN Iso(t)
        ELSE IF update[f] # Undefined THEN update[f] ELSE record[f]]

\* records.forEach of Table.update over the found positions ps[i..]: each
\* record is validated and assigned in turn; a failure throws out of the loop
RECURSIVE UpdateEach(_, _, _, _, _, _)
UpdateEach(h, records, ps, i, update, t) ==
    IF i > Len(ps) THEN [records |-> records, failed |-> FALSE]
    ELSE LET p == ps[i] + 1
             updatedData == Assign(records[p], update, t)
         IN IF ValidateData(ver, h, updatedData) # {}
            THEN [records |-> records, failed |-> TRUE]
            ELSE UpdateEach(h, [records EXCEPT ![p] = updatedData], ps, i + 1, update, t)

\* Table.update(query, update); the result kept in last is the number of
\* records the call returns
Update(h, query, update, t) ==
    /\ h \in handles
    /\ LET tbl == tables[h.name]
           ps == FindPositions(tbl, query)
           r == UpdateEach(h, tbl.records, ps, 1, update, t)
       IN /\ tables' = [tables EXCEPT ![h.name].records = r.records]
          /\ IF r.failed
             THEN /\ last' = Result("update", h, <<query, update>>, "ValidationError", "")
                  /\ UNCHANGED disk
             ELSE /\ last' = Result("update", h, <<query, update>>, "ok",
                                    Len(ps))
                  /\ disk' = tables'
          /\ now' = IF ps = <<>> THEN now ELSE t
    /\ written' = <<>>
    /\ tasks' = tasks
    /\ UNCHANGED <<ver, blobs, contents, handles, nextId>>

\* Table.updateOne(query, update); the result kept in last is 1 for the
\* record the call returns and 0 for null
UpdateOne(h, query, update, t) ==
    /\ h \in handles
    /\ LET tbl == tables[h.name]
           ps == FindPositions(tbl, query)
       IN IF ps = <<>>
          THEN /\ last' = Result("updateOne", h, <<query, update>>, "ok", 0)
               /\ UNCHANGED <<tables, disk, now>>
          ELSE LET p == ps[1] + 1
                   updatedData == Assign(tbl.records[p], update, t)
               IN IF ValidateData(ver, h, updatedData) # {}
                  THEN /\ last' = Result("updateOne", h, <<query, update>>,
                                         "ValidationError", "")
                       /\ now' = t
                       /\ UNCHANGED <<tables, disk>>
                  ELSE /\ tables' = [tables EXCEPT ![h.name].records[p] = updatedData]
                       /\ disk' = tables'
                       /\ now' = t
                       /\ last' = Result("updateOne", h, <<query, update>>, "ok", 1)
    /\ written' = <<>>
    /\ tasks' = tasks
    /\ UNCHANGED <<ver, blobs, contents, handles, nextId>>

\* a delete that filters the records and leaves the indexes as they were
DeleteFrom_StaleIndexes(tbl, query) ==
    LET Keep(record) == ~MatchesQuery(record, query)
    IN [tbl EXCEPT !.records = SelectSeq(tbl.records, Keep)]

\* the body of Table.delete(query) on one table
DeleteFrom(tbl, query) ==
    LET Keep(record) == ~MatchesQuery(record, query)
        records == SelectSeq(tbl.records, Keep)
    IN [tbl EXCEPT !.records = records,
                   !.indexes = [f \in DOMAIN @ |-> BuildIndex(records, f)]]

\* Table.delete(query)
Delete(h, query) ==
    /\ h \in handles
    /\ tables' = [tables EXCEPT ![h.name] = DeleteFrom(@, query)]
    /\ disk' = tables'
    /\ last' = Result("delete", h, query, "ok",
                      Len(tables[h.name].records) - Len(tables'[h.name].records))
    /\ written' = <<>>
    /\ tasks' = tasks
    /\ UNCHANGED <<ver, blobs, contents, handles, nextId, now>>

\* Table.deleteOne(query)
DeleteOne(h, query) ==
    /\ h \in handles
    /\ LET found == Find(tables[h.name], query)
       IN IF found = <<>>
          THEN /\ last' = Result("deleteOne", h, query, "ok", 0)
               /\ UNCHANGED <<tables, disk>>
          ELSE /\ tables' = [tables EXCEPT
                                ![h.name] = DeleteFrom(@, "_id" :> found[1]["_id"])]
               /\ disk' = tables'
               /\ last' = Result("deleteOne", h, query, "ok", 1)
    /\ written' = <<>>
    /\ tasks' = tasks
    /\ UNCHANGED <<ver, blobs, contents, handles, nextId, now>>

\* ------------------------------------------------------------ aggregate
\* doc[field], undefined when the object has no such property
Prop(doc, field) == IF field \in DOMAIN doc THEN doc[field] ELSE Undefined

\* a pipeline stage: the values of the keys aggregate looks at, Undefined
\* for a key the stage does not have
Stage(match, sort, limit, skip, group) ==
    ("$match" :> match) @@ ("$sort" :> sort) @@ ("$limit" :> limit)
    @@ ("$skip" :> skip) @@ ("$group" :> group)

\* let result = table.records: the array of the table itself, not a copy
Snapshot_NoCopy(records) == [items |-> records, shared |-> TRUE, table |-> records]

\* let result = [...table.records]: items is the array the pipeline works
\* on, shared tells whether it is the table's own array, table is the
\* table's array as the pipeline leaves it
Snapshot(records) == [items |-> records, shared |-> FALSE, table |-> records]

\* result = result.filter(doc => this._matchesQuery(doc, stage.$match))
AfterMatch(st, stage) ==
    IF Truthy(stage["$match"])
    THEN LET Keep(doc) == MatchesQuery(doc, stage["$match"][2])
         IN [st EXCEPT !.items = SelectSeq(st.items, Keep), !.shared = FALSE]
    ELSE st

\* the comparator of the $sort stage
SortCompare(a, b, sortField, sortOrder) ==
    IF JsLess(Prop(a, sortField), Prop(b, sortField)) THEN (0 - 1) * sortOrder
    ELSE IF JsLess(Prop(b, sortField), Prop(a, sortField)) THEN sortOrder
    ELSE 0

\* Array.prototype.sort is stable: x goes behind the last element that the
\* comparator does not put after it
RECURSIVE SortInsert(_, _, _, _)
SortInsert(sorted, x, sortField, sortOrder) ==
    IF sorted = <<>> THEN <<x>>
    ELSE LET y == sorted[Len(sorted)]
         IN IF SortCompare(y, x, sortField, sortOrder) > 0
            THEN Append(SortInsert(SubSeq(sorted, 1, Len(sorted) - 1), x,
                                   sortField, sortOrder), y)
            ELSE Append(sorted, x)

RECURSIVE SortBy(_, _, _)
SortBy(items, sortField, sortOrder) ==
    IF items = <<>> THEN <<>>
    ELSE SortInsert(SortBy(SubSeq(items, 1, Len(items) - 1), sortField, sortOrder),
                    items[Len(items)], sortField, sortOrder)

\* whether the comparator is a consistent one for these items: their
\* values are all numbers, which < orders, or, taking one item for every
\* value, equality under the comparator is transitive, so is precedence,
\* and the two directions agree
ConsistentComparator(items, sortField, sortOrder) ==
    LET V(i) == Prop(items[i], sortField)
        I == {i \in 1..Len(items) : \A j \in 1..(i - 1) : V(j) # V(i)}
        Cmp(i, j) == SortCompare(items[i], items[j], sortField, sortOrder)
    IN \/ \A i \in I : V(i)[1] = "number"
       \/ \A i, j, k \in I :
            /\ (Cmp(i, j) < 0) = (Cmp(j, i) > 0)
            /\ Cmp(i, j) = 0 /\ Cmp(j, k) = 0 => Cmp(i, k) = 0
            /\ Cmp(i, j) < 0 /\ Cmp(j, k) < 0 => Cmp(i, k) < 0

\* the orders of items
OrdersOf(items) ==
    LET I == 1..Len(items)
    IN {[i \in I |-> items[p[i]]] :
            p \in {q \in [I -> I] : \A i, j \in I : i # j => q[i] # q[j]}}

\* the arrays result.sort(comparator) can leave: the stable sort under a
\* consistent comparator, and an order the engine chooses under any other
SortOutcomes(items, sortField, sortOrder) ==
    IF ConsistentComparator(items, sortField, sortOrder)
    THEN {SortBy(items, sortField, sortOrder)}
    ELSE OrdersOf(items)

\* result.sort(...): in place, so it reorders the table's array when result
\* is that array
AfterSort(st, stage) ==
    IF Truthy(stage["$sort"])
    THEN LET sortField == CHOOSE f \in DOMAIN stage["$sort"][2] : TRUE
             sortOrder == stage["$sort"][2][sortField][2]
         IN {[items |-> sorted, shared |-> st.shared,
              table |-> IF st.shared THEN sorted ELSE st.table] :
                sorted \in SortOutcomes(st.items, sortField, sortOrder)}
    ELSE {st}

\* result = result.slice(0, stage.$limit)
AfterLimit(st, stage) ==
    IF Truthy(stage["$limit"])
    THEN LET n == stage["$limit"][2]
         IN [st EXCEPT !.items = SubSeq(st.items, 1, IF n < Len(st.items) THEN n
                                                      ELSE Len(st.items)),
                       !.shared = FALSE]
    ELSE st

\* result = result.slice(stage.$skip)
AfterSkip(st, stage) ==
    IF Truthy(stage["$skip"])
    THEN [st EXCEPT !.items = SubSeq(st.items, stage["$skip"][2] + 1, Len(st.items)),
                    !.shared = FALSE]
    ELSE st

\* the keys of groups in the order of Object.values: integer keys ascending,
\* then the other keys in the order they were first set
RECURSIVE IntegerKeys(_, _)
IntegerKeys(keys, n) ==
    IF n > 9 THEN <<>>
    ELSE (IF ToString(n) \in keys THEN <<ToString(n)>> ELSE <<>>)
         \o IntegerKeys(keys, n + 1)

RECURSIVE FirstSet(_, _, _)
FirstSet(items, id, seen) ==
    IF items = <<>> THEN <<>>
    ELSE LET key == ToKey(Prop(Head(items), id))
         IN IF key \in seen \/ \E n \in 0..9 : ToString(n) = key
            THEN FirstSet(Tail(items), id, seen)
            ELSE <<key>> \o FirstSet(Tail(items), id, seen \cup {key})

\* a $group stage that opens a group for every document
GroupBy_PerRecord(items, id) ==
    [i \in 1..Len(items) |->
        [_id |-> Prop(items[i], id), count |-> Num(1), docs |-> Arr(<<items[i]>>)]]

\* the $group stage for a field name in _id
GroupBy(items, id) ==
    LET KeyOf(doc) == ToKey(Prop(doc, id))
        keys == IntegerKeys({KeyOf(items[i]) : i \in 1..Len(items)}, 0)
                \o FirstSet(items, id, {})
        Members(key) == LET In(doc) == KeyOf(doc) = key IN SelectSeq(items, In)
    IN [i \in 1..Len(keys) |->
            [_id |-> Prop(Members(keys[i])[1], id),
             count |-> Num(Len(Members(keys[i]))),
             docs |-> Arr(Members(keys[i]))]]

AfterGroup(st, stage) ==
    IF Truthy(stage["$group"])
    THEN [st EXCEPT !.items = GroupBy(st.items, stage["$group"][2]["_id"][2]),
                    !.shared = FALSE]
    ELSE st

\* one iteration of the loop over the pipeline: the states it can end in
RunStage(st, stage) ==
    {AfterGroup(AfterSkip(AfterLimit(s, stage), stage), stage) :
        s \in AfterSort(AfterMatch(st, stage), stage)}

RECURSIVE RunPipeline(_, _)
RunPipeline(st, pipeline) ==
    IF pipeline = <<>> THEN {st}
    ELSE UNION {RunPipeline(s, Tail(pipeline)) : s \in RunStage(st, Head(pipeline))}

\* Table.aggregate(pipeline)
Aggregate(h, pipeline) ==
    /\ h \in handles
    /\ \E st \in RunPipeline(Snapshot(tables[h.name].records), pipeline) :
          /\ tables' = [tables EXCEPT ![h.name].records = st.table]
          /\ last' = Result("aggregate", h, pipeline, "ok", st.items)
    /\ written' = <<>>
    /\ tasks' = tasks
    /\ UNCHANGED <<ver, blobs, contents, disk, handles, nextId, now>>

\* ------------------------------------------------------------ binary reads
\* record[field].replace('binary:', '')
StripRef(s) ==
    IF Len(s) >= 7 /\ SubSeq(s, 1, 7) = "binary:" THEN SubSeq(s, 8, Len(s)) ELSE s

\* the binary fields of the schema of h that a record has a value for
BinaryFields(h, record) ==
    IF h.schema = "none" THEN {}
    ELSE {f \in DOMAIN SchemaDef(h.schema) :
            SchemaDef(h.schema)[f].type = "binary" /\ Truthy(record[f])}

\* Table._retrieveBinaryData: a copy of the record with every binary field
\* read back from its file, or null when the file cannot be read; failed
\* when a field holds something .replace cannot be called on
RetrieveBinaryData(h, record, dir) ==
    LET bin == BinaryFields(h, record)
    IN IF \E f \in bin : record[f][1] # "string"
       THEN [failed |-> TRUE, record |-> record]
       ELSE [failed |-> FALSE,
             record |-> [f \in DOMAIN record |->
                            IF f \in bin
                            THEN (IF StripRef(record[f][2]) \in DOMAIN dir
                                  THEN Buf(dir[StripRef(record[f][2])])
                                  ELSE Null)
                            ELSE record[f]]]

\* retrieval of a sequence of records, as results.push(await ...) does it
RECURSIVE RetrieveAll(_, _, _)
RetrieveAll(h, records, dir) ==
    IF records = <<>> THEN [failed |-> FALSE, records |-> <<>>]
    ELSE LET first == RetrieveBinaryData(h, Head(records), dir)
             rest == RetrieveAll(h, Tail(records), dir)
         IN [failed |-> first.failed \/ rest.failed,
             records |-> <<first.record>> \o rest.records]

\* the value Table.findById resolves to
FindByIdValue(h, tbl, dir, id) ==
    LET hits == {i \in 1..Len(tbl.records) : StrictEq(tbl.records[i]["_id"], id)}
    IN IF hits = {} THEN [failed |-> FALSE, record |-> Null]
       ELSE RetrieveBinaryData(h, tbl.records[CHOOSE i \in hits : \A j \in hits : i <= j], dir)

\* a findById that reads the binary fields back into the stored record
\* instead of a copy of it
FindById_InPlace(h, id) ==
    /\ h \in handles
    /\ LET r == FindByIdValue(h, tables[h.name], blobs[h.name], id)
           Hit(i) == StrictEq(tables[h.name].records[i]["_id"], id)
       IN /\ last' = IF r.failed THEN Result("findById", h, id, "TypeError", "")
                     ELSE Result("findById", h, id, "ok", r.record)
          /\ tables' = [tables EXCEPT ![h.name].records =
                            [i \in 1..Len(@) |->
                                IF Hit(i) /\ ~r.failed /\ \A j \in 1..(i - 1) : ~Hit(j)
                                THEN r.record ELSE @[i]]]
    /\ written' = <<>>
    /\ tasks' = tasks
    /\ UNCHANGED <<ver, blobs, contents, disk, handles, nextId, now>>

\* Table.findById(id)
FindById(h, id) ==
    /\ h \in handles
    /\ LET r == FindByIdValue(h, tables[h.name], blobs[h.name], id)
       IN last' = IF r.failed THEN Result("findById", h, id, "TypeError", "")
                  ELSE Result("findById", h, id, "ok", r.record)
    /\ written' = <<>>
    /\ tasks' = tasks
    /\ UNCHANGED <<ver, tables, blobs, contents, disk, handles, nextId, now>>

\* a searchBinary query: the criteria it may carry
Criteria(size, mimeType, minSize, maxSize, pattern) ==
    [size |-> size, mimeType |-> mimeType, minSize |-> minSize,
     maxSize |-> maxSize, pattern |-> pattern]

\* bufferContains(filepath, pattern) on the bytes of a file
BufferContains(bytes, pattern) ==
    IF pattern[1] = "buffer" THEN Includes(bytes, pattern[2])
    ELSE Includes(Utf8(bytes), pattern[2])

\* the metadata tests of searchBinary on one binary field of a record
MetadataMatches(record, field, query) ==
    LET metadata == record[field \o "_metadata"]
        Has(name) == metadata[1] = "object" /\ name \in DOMAIN metadata[2]
        size == IF Has("size") THEN Num(metadata[2].size) ELSE Undefined
        mime == IF Has("mimeType") THEN Str(metadata[2].mimeType) ELSE Undefined
    IN \/ Truthy(query.size) /\ StrictEq(size, query.size)
       \/ Truthy(query.mimeType) /\ StrictEq(mime, query.mimeType)
       \/ Truthy(query.minSize) /\ JsLessEq(query.minSize, size)
       \/ Truthy(query.maxSize) /\ JsLessEq(size, query.maxSize)

\* Table.searchBinary(query): fs.readFile throws out of the call when a
\* pattern is given and the file of a record is missing
SearchBinary(h, query) ==
    /\ h \in handles
    /\ LET tbl == tables[h.name]
           dir == blobs[h.name]
           Missing(record) ==
                \E f \in BinaryFields(h, record) : StripRef(record[f][2]) \notin DOMAIN dir
           Matches(record) ==
                \E f \in BinaryFields(h, record) :
                    \/ MetadataMatches(record, f, query)
                    \/ /\ Truthy(query.pattern)
                       /\ BufferContains(dir[StripRef(record[f][2])], query.pattern)
           found == RetrieveAll(h, SelectSeq(tbl.records, Matches), dir)
       IN last' = IF Truthy(query.pattern)
                     /\ \E i \in 1..Len(tbl.records) : Missing(tbl.records[i])
                  THEN Result("searchBinary", h, query, "ENOENT", "")
                  ELSE Result("searchBinary", h, query, "ok", found.records)
    /\ written' = <<>>
    /\ tasks' = tasks
    /\ UNCHANGED <<ver, tables, blobs, contents, disk, handles, nextId, now>>

\* !this.schema?.definition[field]?.type === 'binary', the test that guards
\* the throw of findSimilarBinary
NotBinaryField(h, field) ==
    LET type == IF h.schema = "none" \/ field \notin DOMAIN SchemaDef(h.schema)
                THEN Undefined
                ELSE Str(SchemaDef(h.schema)[field].type)
    IN StrictEq(Bool(~Truthy(type)), Str("binary"))

\* Math.abs(a - b)
Abs(n) == IF n < 0 THEN 0 - n ELSE n

\* the loop of findSimilarBinary over the records from position i on: the
\* records selected, or failed when a value has no .replace
RECURSIVE SimilarFrom(_, _, _, _, _)
SimilarFrom(records, i, field, buffer, options) ==
    IF i > Len(records) THEN [failed |-> FALSE, records |-> <<>>]
    ELSE LET record == records[i]
             rest == SimilarFrom(records, i + 1, field, buffer, options)
             metadata == record[field \o "_metadata"]
         IN IF ~Truthy(record[field]) THEN rest
            ELSE IF record[field][1] # "string" THEN [failed |-> TRUE, records |-> <<>>]
            ELSE IF StripRef(record[field][2]) = Sha256(buffer)
                 THEN [rest EXCEPT !.records = <<record>> \o @]
            ELSE IF ~Truthy(options.sizeTolerance) THEN rest
            ELSE IF metadata[1] # "object" THEN [failed |-> TRUE, records |-> <<>>]
            ELSE IF Abs(metadata[2].size - Len(buffer)) <= options.sizeTolerance[2]
                 THEN [rest EXCEPT !.records = <<record>> \o @]
            ELSE rest

\* Table.findSimilarBinary(field, buffer, options)
FindSimilarBinary(h, field, buffer, options) ==
    /\ h \in handles
    /\ LET arg == [field |-> field, buffer |-> buffer, options |-> options]
           sel == SimilarFrom(tables[h.name].records, 1, field, buffer, options)
           found == RetrieveAll(h, sel.records, blobs[h.name])
       IN last' = IF NotBinaryField(h, field)
                  THEN Result("findSimilarBinary", h, arg, "FieldTypeError", "")
                  ELSE IF sel.failed \/ found.failed
                  THEN Result("findSimilarBinary", h, arg, "TypeError", "")
                  ELSE Result("findSimilarBinary", h, arg, "ok", found.records)
    /\ written' = <<>>
    /\ tasks' = tasks
    /\ UNCHANGED <<ver, tables, blobs, contents, disk, handles, nextId, now>>

\* the environment removes a file of a binary directory (external deletion)
RemoveBlob(name, file) ==
    /\ file \in DOMAIN blobs[name]
    /\ blobs' = [blobs EXCEPT ![name] = [n \in DOMAIN @ \ {file} |-> @[n]]]
    /\ last' = Result("unlink", "", file, "ok", "")
    /\ written' = <<>>
    /\ tasks' = tasks
    /\ UNCHANGED <<ver, tables, contents, disk, handles, nextId, now>>

\* ------------------------------------------------------------ inputs
\* the _id values present in a table
IdsOf(name) == {tables[name].records[i]["_id"] : i \in 1..Len(tables[name].records)}

MkDoc(k, data, id) ==
    [f \in Fields |-> CASE f = "k" -> k [] f = "data" -> data [] f = "_id" -> id
                        [] OTHER -> Undefined]
MkPatch(k, id, createdAt) ==
    [f \in Fields |-> CASE f = "k" -> k [] f = "_id" -> id [] f = "createdAt" -> createdAt
                        [] OTHER -> Undefined]

Users == [name |-> "users", schema |-> "UserSchema"]
Posts == [name |-> "posts", schema |-> "PostSchema"]

IndexFields == {"k"}

\* ---- Spec: the binary-storage engine on one table with a schema; its
\* index, queries, updates and deletes.  Documents: two k the schema
\* accepts, one above its max, and one that carries the _id of a stored
\* record.
Docs(name) ==
    {MkDoc(Num(k), Undefined, Undefined) : k \in {1, 2, 5}}
    \cup {MkDoc(Num(1), Undefined, id) : id \in IdsOf(name)}
Batches ==
    UNION {[1..n -> {MkDoc(Num(k), Undefined, Undefined) : k \in {1, 5}}] : n \in 1..MaxRecords}
Patches == {MkPatch(Num(1), Undefined, Undefined), MkPatch(Num(5), Undefined, Undefined),
            MkPatch(Undefined, Str("id1"), Str("T9"))}
Queries(name) ==
    {EmptyObj, "k" :> Num(1), "k" :> Obj("$gt" :> Num(1))}
    \cup {"_id" :> id : id \in IdsOf(name)}

Next ==
    \/ Table(Users)
    \/ \E h \in handles, f \in IndexFields : CreateIndex(h, f)
    \/ \E h \in handles : \E d \in Docs(h.name) : InsertBinary(h, d, now)
    \/ \E h \in handles, b \in Batches : InsertManyBinary(h, b, now)
    \/ \E h \in handles : \E q \in Queries(h.name) : FindOp(h, q)
    \/ \E h \in handles, u \in Patches : \E q \in Queries(h.name) : Update(h, q, u, now)
    \/ \E h \in handles, u \in Patches : \E q \in Queries(h.name) : UpdateOne(h, q, u, now)
    \/ \E h \in handles : \E q \in Queries(h.name) : Delete(h, q)
    \/ \E h \in handles : \E q \in Queries(h.name) : DeleteOne(h, q)

Spec == Init /\ [][Next]_vars

\* ---- SpecKeys: both engines on two tables, posts referring to users by a
\* foreign key.  Documents: no k, a falsy k and a k UserSchema accepts;
\* batches of a k UserSchema accepts and one it refuses.
KeyDocs == {MkDoc(k, Undefined, Undefined) : k \in {Undefined, Num(0), Num(1)}}
KeyBatches ==
    UNION {[1..n -> {MkDoc(Num(k), Undefined, Undefined) : k \in {1, 5}}] : n \in 1..MaxRecords}
KeyFields == {"k"}
RefFields == {"k"}

InitKeys ==
    /\ ver \in {"binary", "earlier"}
    /\ tables = EmptyObj
    /\ blobs = [n \in TableNames |-> EmptyObj]
    /\ contents = [n \in TableNames |-> {}]
    /\ disk = EmptyObj
    /\ handles = {}
    /\ nextId = 1
    /\ now = 0
    /\ last = Result("connect", "", "", "ok", "")
    /\ written = <<>>
    /\ tasks = <<>>

NextKeys ==
    \/ \E h \in {Users, Posts} : Table(h)
    \/ \E h \in handles, f \in IndexFields : CreateIndex(h, f)
    \/ \E f \in KeyFields, g \in RefFields : AddForeignKey(Posts, f, "users", g)
    \/ \E h \in handles, d \in KeyDocs : InsertBinary(h, d, now)
    \/ \E h \in handles, d \in KeyDocs : InsertEarlier(h, d, now)
    \/ \E h \in handles, b \in KeyBatches : InsertManyBinary(h, b, now)
    \/ \E h \in handles, b \in KeyBatches : InsertManyEarlier(h, b, now)

SpecKeys == InitKeys /\ [][NextKeys]_vars

\* ---- SpecBinary: the binary-storage engine on one table with a binary
\* field.  Payloads: three within the size limit, one above it.
Payloads == {<<65>>, <<66>>, <<65, 66>>, <<65, 66, 67>>}
BinaryDocs ==
    {MkDoc(Num(1), Undefined, Undefined)}
    \cup {MkDoc(Num(1), Buf(b), Undefined) : b \in Payloads}
\* batches of a payload within the limit and the one above it
BinaryBatches ==
    UNION {[1..n -> {MkDoc(Num(1), Buf(b), Undefined) : b \in {<<65>>, <<65, 66, 67>>}}] :
            n \in 1..MaxRecords}
BinaryPatches == {MkPatch(Num(2), Undefined, Undefined)}
BinaryQueries == {EmptyObj, "k" :> Num(1)}

NextBinary ==
    \/ Table(Posts)
    \/ \E h \in handles, t \in Clock, d \in BinaryDocs : InsertBinary(h, d, t)
    \/ \E h \in handles, b \in BinaryBatches : InsertManyBinary(h, b, now)
    \/ \E h \in handles, u \in BinaryPatches, t \in Clock, q \in BinaryQueries :
            Update(h, q, u, t)
    \/ \E h \in handles, u \in BinaryPatches, t \in Clock, q \in BinaryQueries :
            UpdateOne(h, q, u, t)
    \/ \E h \in handles, q \in BinaryQueries : Delete(h, q)

SpecBinary == Init /\ [][NextBinary]_vars

\* ------------------------------------------------------------ properties
SeqRange(s) == {s[i] : i \in 1..Len(s)}

\* the 0-based positions of the records whose field is stored under key
PositionsOf(records, field, key) ==
    {p \in 0..(Len(records) - 1) : ToKey(records[p + 1][field]) = key}

\* every bucket of the index of field holds, once each, exactly the positions
\* of the records with that value, and every record is in a bucket
IndexConsistent(tbl, field) ==
    LET index == tbl.indexes[field]
    IN /\ \A key \in DOMAIN index :
            /\ SeqRange(index[key]) = PositionsOf(tbl.records, field, key)
            /\ Len(index[key]) = Cardinality(SeqRange(index[key]))
       /\ \A p \in 1..Len(tbl.records) :
            ToKey(tbl.records[p][field]) \in DOMAIN index

\* the records a full scan through the matcher selects, in table order
Scan(records, query) ==
    LET Hit(record) == MatchesQuery(record, query)
    IN SelectSeq(records, Hit)

\* the i-th smallest element of a set of numbers
RECURSIVE Nth(_, _)
Nth(S, i) ==
    LET m == CHOOSE x \in S : \A y \in S : x <= y
    IN IF i = 1 THEN m ELSE Nth(S \ {m}, i - 1)

\* value is the value of field ref.field in some record of table ref.table
Present(tbls, ref, value) ==
    /\ ref.table \in DOMAIN tbls
    /\ \E i \in 1..Len(tbls[ref.table].records) :
            StrictEq(tbls[ref.table].records[i][ref.field], value)

\* the schema of handle h refuses the document
Invalid(h, doc) == SchemaValidate(ver, HandleSchema(ver, h), doc) # {}

\* C1: after any sequence of insert, insertMany, update, updateOne, delete
\* and deleteOne, every created index is consistent: the bucket of a value
\* holds exactly the positions of the records whose field has that value.
C1_IndexConsistency ==
    \A n \in DOMAIN tables : \A f \in DOMAIN tables[n].indexes :
        IndexConsistent(tables[n], f)

\* C2: in every reachable table state find(query) returns exactly the
\* records that satisfy the matcher, in table order: the index fast path and
\* the full scan return the same sequence.
C2_FindIsScan ==
    last.op = "find" => last.ret = Scan(tables[last.h.name].records, last.arg)

\* C3: insertMany is atomic: when a document of the batch fails validation
\* or the foreign-key check, at whatever position, the call fails, and a
\* failed call leaves the records and the indexes of the table as they were.
C3_BatchAtomicity ==
    [][last'.op = "insertMany" =>
        LET h == last'.h
            docs == last'.arg
            tbl == tables[h.name]
            KeyRefused(doc) ==
                \E f \in DOMAIN tbl.foreignKeys :
                    Truthy(doc[f]) /\ ~Present(tables, tbl.foreignKeys[f], doc[f])
            Refused(doc) == Invalid(h, doc) \/ KeyRefused(doc)
        IN /\ (\E i \in 1..Len(docs) : Refused(docs[i])) => last'.status # "ok"
           /\ last'.status # "ok" =>
                /\ tables'[h.name].records = tbl.records
                /\ tables'[h.name].indexes = tbl.indexes
    ]_vars

\* C3 witness: a two-document batch whose first document is acceptable was
\* refused for the foreign key of its second document, on a table that holds
\* a record and has an index.
C3_Witness ==
    /\ last.op = "insertMany"
    /\ last.status = "ForeignKeyError"
    /\ Len(last.arg) = 2
    /\ ~Invalid(last.h, last.arg[1])
    /\ \A f \in DOMAIN tables[last.h.name].foreignKeys :
            Present(tables, tables[last.h.name].foreignKeys[f], last.arg[1][f])
    /\ Len(tables[last.h.name].records) = 1
    /\ DOMAIN tables[last.h.name].indexes # {}

\* C4: once a foreign key is registered, insert and insertMany refuse, with
\* a foreign-key error and without appending, a valid document whose value
\* is not in the referenced table, and accept one whose values all are.
C4_ForeignKeysEnforced ==
    [][last'.op \in {"insert", "insertMany"} =>
        LET h == last'.h
            docs == IF last'.op = "insert" THEN <<last'.arg>> ELSE last'.arg
            tbl == tables[h.name]
            Absent(doc) ==
                \E f \in DOMAIN tbl.foreignKeys :
                    doc[f] # Undefined /\ ~Present(tables, tbl.foreignKeys[f], doc[f])
            valid == \A i \in 1..Len(docs) : ~Invalid(h, docs[i])
        IN valid /\ DOMAIN tbl.foreignKeys # {} =>
            IF \E i \in 1..Len(docs) : Absent(docs[i])
            THEN /\ last'.status = "ForeignKeyError"
                 /\ tables'[h.name].records = tbl.records
            ELSE last'.status = "ok"
    ]_vars

\* C5: an insert that fails with a validation error or a foreign-key error
\* leaves the whole database (the set of tables, their records, indexes and
\* foreign keys) and the blob store as they were.
C5_FailedInsertKeepsState ==
    [][(last'.op = "insert" /\ last'.status \in {"ValidationError", "ForeignKeyError"})
        => (tables' = tables /\ blobs' = blobs)]_vars

\* C6: update is all-or-nothing: if the merged candidate of a matched record
\* is invalid the call is rejected and no record changes; otherwise every
\* matched record gets the patch fields and an updatedAt stamp, and no
\* unmatched record changes.
C6_UpdateAllOrNothing ==
    [][last'.op = "update" =>
        LET h == last'.h
            query == last'.arg[1]
            patch == last'.arg[2]
            old == tables[h.name].records
            new == tables'[h.name].records
            Merged(i) == [f \in Fields |->
                            IF patch[f] # Undefined THEN patch[f] ELSE old[i][f]]
            matched == {i \in 1..Len(old) : MatchesQuery(old[i], query)}
        IN /\ Len(new) = Len(old)
           /\ IF \E i \in matched : Invalid(h, Merged(i))
              THEN last'.status = "ValidationError" /\ new = old
              ELSE /\ last'.status = "ok"
                   /\ \A i \in 1..Len(old) :
                        IF i \in matched
                        THEN /\ new[i]["updatedAt"] # Undefined
                             /\ \A f \in Fields \ {"updatedAt"} : new[i][f] = Merged(i)[f]
                        ELSE new[i] = old[i]
    ]_vars

\* C7: delete(query) removes exactly the records that satisfy the matcher,
\* keeps the others in their order, returns the number removed and leaves
\* every index of the table consistent with the new positions.
C7_DeleteExact ==
    [][last'.op = "delete" =>
        LET n == last'.h.name
            query == last'.arg
            old == tables[n].records
            new == tables'[n].records
            kept == {i \in 1..Len(old) : ~MatchesQuery(old[i], query)}
        IN /\ Len(new) = Cardinality(kept)
           /\ \A j \in 1..Len(new) : new[j] = old[Nth(kept, j)]
           /\ last'.ret = Len(old) - Cardinality(kept)
           /\ DOMAIN tables'[n].indexes = DOMAIN tables[n].indexes
           /\ \A f \in DOMAIN tables'[n].indexes : IndexConsistent(tables'[n], f)
           /\ \A m \in DOMAIN tables \ {n} : tables'[m] = tables[m]
    ]_vars

\* C7 witness: a delete removed the first of two records of an indexed
\* table, so that the record kept moved to position 0.
C7_Witness ==
    /\ last.op = "delete"
    /\ last.ret = 1
    /\ Len(tables[last.h.name].records) = 1
    /\ tables[last.h.name].records[1]["_id"] = GenId(2)
    /\ "k" \in DOMAIN tables[last.h.name].indexes

\* C8: no two records of a table have the same _id, whatever documents were
\* inserted (documents carrying an _id included) and whatever updates and
\* deletes came between.
C8_UniqueIds ==
    \A n \in DOMAIN tables :
        \A i, j \in 1..Len(tables[n].records) :
            i # j => tables[n].records[i]["_id"] # tables[n].records[j]["_id"]

\* C9: no update or updateOne call, whatever its patch, changes the _id or
\* the createdAt of a record.
C9_IdentityImmutable ==
    [][last'.op \in {"update", "updateOne"} =>
        LET old == tables[last'.h.name].records
            new == tables'[last'.h.name].records
        IN /\ Len(new) = Len(old)
           /\ \A i \in 1..Len(old) :
                /\ new[i]["_id"] = old[i]["_id"]
                /\ new[i]["createdAt"] = old[i]["createdAt"]
    ]_vars

\* C10: dedup: the blob store of a table holds exactly one blob for each
\* distinct content ever inserted, every record with a binary field refers
\* to a stored blob by its digest, and an insert refers to the one blob that
\* holds its content, so records of equal content carry equal digests.
C10_Dedup ==
    /\ \A n \in TableNames :
          /\ Cardinality(DOMAIN blobs[n]) = Cardinality(contents[n])
          /\ \A c \in contents[n] :
                Cardinality({b \in DOMAIN blobs[n] : blobs[n][b] = c}) = 1
    /\ \A n \in DOMAIN tables : \A i \in 1..Len(tables[n].records) :
          LET record == tables[n].records[i]
          IN record["data"] # Undefined =>
                \E b \in DOMAIN blobs[n] :
                    /\ record["data"] = Str("binary:" \o b)
                    /\ record["data_metadata"][2].hash = b
    /\ (last.op = "insert" /\ last.status = "ok" /\ last.arg["data"] # Undefined) =>
          \E b \in DOMAIN blobs[last.h.name] :
              /\ blobs[last.h.name][b] = last.arg["data"][2]
              /\ last.ret["data"] = Str("binary:" \o b)

\* C10 witness: two records were inserted with the same content; they carry
\* the same digest and the store holds one blob.
C10_Witness ==
    /\ "posts" \in DOMAIN tables
    /\ Len(tables["posts"].records) = 2
    /\ tables["posts"].records[1]["data"] # Undefined
    /\ tables["posts"].records[1]["data"] = tables["posts"].records[2]["data"]
    /\ Cardinality(DOMAIN blobs["posts"]) = 1
    /\ Cardinality(contents["posts"]) = 1

\* C11: storing a blob is write-once: a call writes the file of a digest
\* only if no blob with that digest is present, so a repeated put of the
\* same bytes performs no write.
C11_WriteOnce ==
    [][\A i \in 1..Len(written') :
          /\ written'[i] \notin DOMAIN blobs[last'.h.name]
          /\ \A j \in 1..(i - 1) : written'[j] # written'[i]
    ]_vars

\* ---- SpecLimits: the binary-storage engine on one table reached through
\* handles whose schemas declare no limit, or a limit of their own, for the
\* binary field.  Payloads of 1 to 4 bytes.
LimitHandles ==
    {Posts} \cup {[name |-> "posts", schema |-> LimitName(n)] : n \in Limits}
LimitDocs ==
    {MkDoc(Num(1), Buf(b), Undefined) :
        b \in {<<65>>, <<65, 66>>, <<65, 66, 67>>, <<65, 66, 67, 68>>}}

NextLimits ==
    \/ \E h \in LimitHandles : Table(h)
    \/ \E h \in handles, d \in LimitDocs : InsertBinary(h, d, now)

SpecLimits == Init /\ [][NextLimits]_vars

\* C12: an insert of binary content of length L succeeds iff L <= M, where
\* M is the maxSize the field declares, or the database-wide maxBinarySize
\* when it declares none; a rejected insert stores no record and no blob.
C12_SizeEnforcement ==
    [][(last'.op = "insert" /\ last'.arg["data"][1] = "buffer") =>
        LET rules == SchemaDef(last'.h.schema)["data"]
            L == Len(last'.arg["data"][2])
            M == IF rules.maxSize # Undefined THEN rules.maxSize[2] ELSE MaxBinarySize
        IN IF L <= M
           THEN last'.status = "ok"
           ELSE /\ last'.status = "ValidationError"
                /\ tables' = tables
                /\ blobs' = blobs
    ]_vars

\* ---- SpecRead: the binary-storage engine on one table with a binary
\* field, its retrieval operations, and an environment that may remove blob
\* files.  Payloads: one and two bytes of text and a four-byte JPEG header;
\* documents may carry the _id of a stored record.
ReadHandle == [name |-> "posts", schema |-> LimitName(5)]
ReadPayloads == {<<65>>, <<65, 66>>, <<255, 216, 65, 66>>}
ReadDocs(name) ==
    {MkDoc(Num(1), Buf(b), Undefined) : b \in ReadPayloads}
    \cup {MkDoc(Num(1), Buf(<<65, 66>>), id) : id \in IdsOf(name)}
SearchQueries ==
    {Criteria(Undefined, m, lo, hi, p) :
        m \in {Undefined, Str("image/jpeg")}, lo \in {Undefined, Num(0), Num(2)},
        hi \in {Undefined, Num(1)}, p \in {Undefined}}
    \cup {Criteria(Undefined, Undefined, Undefined, hi, p) :
            hi \in {Undefined, Num(1)}, p \in {Str("B"), Buf(<<65>>)}}
SimilarFields == {"data", "k"}
SimilarBuffers == {<<65, 66>>, <<66>>}
SimilarOptions == {[sizeTolerance |-> t] : t \in {Undefined, Num(0), Num(1)}}

NextRead ==
    \/ Table(ReadHandle)
    \/ \E h \in handles : \E d \in ReadDocs(h.name) : InsertBinary(h, d, now)
    \/ \E h \in handles : \E id \in IdsOf(h.name) \cup {Str("none")} : FindById(h, id)
    \/ \E h \in handles, q \in SearchQueries : SearchBinary(h, q)
    \/ \E h \in handles, f \in SimilarFields, b \in SimilarBuffers, o \in SimilarOptions :
            FindSimilarBinary(h, f, b, o)
    \/ \E n \in TableNames : \E file \in DOMAIN blobs[n] : RemoveBlob(n, file)

SpecRead == Init /\ [][NextRead]_vars

\* the record a retrieval surfaces for a stored record: its fields as they
\* are, the binary field read back, or null when its blob is missing
Surfaced(stored, dir) ==
    [f \in DOMAIN stored |->
        IF f = "data" /\ stored[f] # Undefined
        THEN (IF StripRef(stored[f][2]) \in DOMAIN dir
              THEN Buf(dir[StripRef(stored[f][2])]) ELSE Null)
        ELSE stored[f]]

\* the records of a sequence that satisfy a test, each as it is surfaced
SurfacedWhere(records, dir, Test(_)) ==
    LET sel == SelectSeq(records, Test)
    IN [i \in 1..Len(sel) |-> Surfaced(sel[i], dir)]

\* C13: after a successful insert of a document with a binary field the
\* record holds the reference 'binary:<digest>' and the payload's length as
\* metadata size, and findById of the returned _id yields the payload.
C13_RoundTrip ==
    (last.op = "insert" /\ last.status = "ok" /\ last.arg["data"][1] = "buffer") =>
        LET bytes == last.arg["data"][2]
            n == last.h.name
            r == FindByIdValue(last.h, tables[n], blobs[n], last.ret["_id"])
        IN /\ last.ret["data"] = Str("binary:" \o Sha256(bytes))
           /\ last.ret["data_metadata"][2].size = Len(bytes)
           /\ ~r.failed
           /\ r.record # Null
           /\ r.record["data"] = Buf(bytes)

\* the binary payload a stored record refers to, as kept in the blob store
StoredSize(record) == record["data_metadata"][2].size
StoredMime(record) == record["data_metadata"][2].mimeType
HasBinary(record) == record["data"] # Undefined

\* C14: searchBinary returns, in table order, exactly the records with a
\* binary field for which at least one supplied criterion is true: mimeType
\* equal, minSize <= size, size <= maxSize, or pattern contained in the data.
C14_SearchIsOr ==
    (last.op = "searchBinary" /\ last.status = "ok") =>
        LET q == last.arg
            dir == blobs[last.h.name]
            Holds(record) ==
                /\ HasBinary(record)
                /\ \/ q.mimeType # Undefined /\ StoredMime(record) = q.mimeType[2]
                   \/ q.minSize # Undefined /\ q.minSize[2] <= StoredSize(record)
                   \/ q.maxSize # Undefined /\ StoredSize(record) <= q.maxSize[2]
                   \/ q.pattern # Undefined
                        /\ BufferContains(dir[StripRef(record["data"][2])], q.pattern)
        IN last.ret = SurfacedWhere(tables[last.h.name].records, dir, Holds)

\* C15: findSimilarBinary on a binary field returns exactly the records whose
\* digest equals the reference buffer's and, when a sizeTolerance >= 0 is
\* given (0 included), those whose size differs from the buffer's length by
\* at most the tolerance.
C15_SimilarExact ==
    (last.op = "findSimilarBinary" /\ last.arg.field = "data" /\ last.status = "ok") =>
        LET buffer == last.arg.buffer
            tol == last.arg.options.sizeTolerance
            dir == blobs[last.h.name]
            Similar(record) ==
                /\ HasBinary(record)
                /\ \/ StripRef(record["data"][2]) = Sha256(buffer)
                   \/ tol # Undefined /\ Abs(StoredSize(record) - Len(buffer)) <= tol[2]
        IN last.ret = SurfacedWhere(tables[last.h.name].records, dir, Similar)

\* C16: findSimilarBinary on a field the schema does not declare binary
\* fails with the field-type error and returns no records.
C16_FieldTypeError ==
    (last.op = "findSimilarBinary"
        /\ SchemaDef(last.h.schema)[last.arg.field].type # "binary")
    => last.status = "FieldTypeError"

\* C17: a missing blob never aborts a read: findById, searchBinary (with
\* any criteria, pattern included) and findSimilarBinary on the binary field
\* complete, and a returned record whose blob is missing carries null in the
\* binary field, its other fields as stored.
C17_MissingBlobTolerated ==
    LET dir == blobs[last.h.name]
        records == tables[last.h.name].records
        AsStored(r) == \E i \in 1..Len(records) : r = Surfaced(records[i], dir)
    IN /\ last.op = "findById" =>
            /\ last.status = "ok"
            /\ last.ret # Null => AsStored(last.ret)
       /\ (last.op = "searchBinary"
            \/ (last.op = "findSimilarBinary" /\ last.arg.field = "data")) =>
            /\ last.status = "ok"
            /\ \A i \in 1..Len(last.ret) : AsStored(last.ret[i])

\* ---- SpecMatcher: the matcher on a table without a schema, whose records
\* hold a number or nothing in k and a string or nothing in data; queries
\* combine a condition on k with a condition on data, each absent, a literal
\* or an operator object, some with a key that is not an operator.
Plain == [name |-> "users", schema |-> "none"]
MatcherDocs ==
    {MkDoc(Num(1), Str("ab"), Undefined), MkDoc(Num(2), Str("b"), Undefined),
     MkDoc(Undefined, Str("ab"), Undefined), MkDoc(Num(1), Undefined, Undefined)}
KConditions ==
    {Num(1), Null,
     Obj(EmptyObj),
     Obj("$gt" :> Num(1)), Obj("$lt" :> Num(2)), Obj("$ne" :> Num(1)),
     Obj(("$gte" :> Num(1)) @@ ("$lte" :> Num(1))),
     Obj(("$gte" :> Num(2)) @@ ("$lte" :> Num(1))),
     Obj("$in" :> Arr(<<Num(1), Num(2)>>)), Obj("$nin" :> Arr(<<Num(1)>>)),
     Obj("$in" :> Num(1)),
     Obj("$exists" :> Bool(TRUE)), Obj("$exists" :> Bool(FALSE)),
     Obj("$contains" :> Num(1)),
     Obj(("$gt" :> Num(0)) @@ ("$contains" :> Num(1)))}
DataConditions ==
    {Str("ab"),
     Obj("$regex" :> Str("a")), Obj("$gt" :> Str("ab")), Obj("$lte" :> Str("ab")),
     Obj("$gt" :> Num(0)),
     Obj(("$regex" :> Str("b")) @@ ("$size" :> Num(2)))}
BothK == {Num(1), Obj("$gt" :> Num(1)), Obj(("$gt" :> Num(0)) @@ ("$contains" :> Num(1)))}
BothData == {Str("ab"), Obj("$regex" :> Str("a"))}
MatcherQueries ==
    {EmptyObj}
    \cup {"k" :> c : c \in KConditions}
    \cup {"data" :> c : c \in DataConditions}
    \cup {("k" :> c) @@ ("data" :> d) : c \in BothK, d \in BothData}

NextMatcher ==
    \/ Table(Plain)
    \/ \E h \in handles, d \in MatcherDocs : InsertBinary(h, d, now)
    \/ \E h \in handles, q \in MatcherQueries :
            \E i \in 1..Len(tables[h.name].records) : MatchesQueryOp(h, i, q)
    \/ \E h \in handles, q \in MatcherQueries : FindOp(h, q)
    \/ \E h \in handles, q \in MatcherQueries : Delete(h, q)

SpecMatcher == Init /\ [][NextMatcher]_vars

\* the operators the matcher recognizes
Recognized == {"$gt", "$gte", "$lt", "$lte", "$ne", "$in", "$nin", "$exists", "$regex"}

\* natural ordering: numbers by magnitude, strings by code unit; values of
\* different kinds, and a missing value, are below and above nothing
Below(a, b) ==
    \/ a[1] = "number" /\ b[1] = "number" /\ a[2] < b[2]
    \/ a[1] = "string" /\ b[1] = "string" /\ StrLess(a[2], b[2])
SameKind(a, b) == a[1] = b[1] /\ a[1] \in {"number", "string"}

\* the stated meaning of one operator with operand val for a field value fv
Holds(op, val, fv) ==
    CASE op = "$gt" -> Below(val, fv)
      [] op = "$lt" -> Below(fv, val)
      [] op = "$gte" -> SameKind(val, fv) /\ ~Below(fv, val)
      [] op = "$lte" -> SameKind(val, fv) /\ ~Below(val, fv)
      [] op = "$ne" -> fv # val
      [] op = "$in" -> val[1] = "array" /\ fv \in {val[2][i] : i \in 1..Len(val[2])}
      [] op = "$nin" -> val[1] = "array" /\ fv \notin {val[2][i] : i \in 1..Len(val[2])}
      [] op = "$exists" -> (fv # Undefined) = val[2]
      [] op = "$regex" -> fv[1] = "string" /\ Includes(fv[2], val[2])
      [] OTHER -> FALSE

\* a literal matches by equality, an operator object when all it supplies hold
FieldMatches(cond, fv) ==
    IF cond[1] = "object"
    THEN \A op \in DOMAIN cond[2] : Holds(op, cond[2][op], fv)
    ELSE fv = cond

Unrecognized(query) ==
    \E key \in DOMAIN query :
        /\ query[key][1] = "object"
        /\ \E op \in DOMAIN query[key][2] : op \notin Recognized

AggregateDocs == {MkDoc(Num(k), Undefined, Undefined) : k \in {1, 2}}
Stages ==
    {Stage(Obj("k" :> Obj("$gt" :> Num(0))), Undefined, Undefined, Undefined, Undefined),
     Stage(Undefined, Obj("k" :> Num(1)), Undefined, Undefined, Undefined),
     Stage(Undefined, Obj("k" :> Num(0 - 1)), Undefined, Undefined, Undefined),
     Stage(Undefined, Undefined, Num(1), Undefined, Undefined),
     Stage(Undefined, Undefined, Undefined, Num(1), Undefined),
     Stage(Undefined, Undefined, Undefined, Undefined, Obj("_id" :> Str("k")))}
MaxStages == 2
Pipelines ==
    UNION {{p \in [1..n -> Stages] : \A i, j \in 1..n : i # j => p[i] # p[j]} :
              n \in 0..MaxStages}

NextAggregate ==
    \/ Table(Users)
    \/ \E h \in handles, f \in IndexFields : CreateIndex(h, f)
    \/ \E h \in handles, d \in AggregateDocs : InsertBinary(h, d, now)
    \/ \E h \in handles, p \in Pipelines : Aggregate(h, p)

SpecAggregate == Init /\ [][NextAggregate]_vars

\* C20: aggregate never mutates the table: for every pipeline the table's
\* record sequence, its order, the records' field values and the indexes
\* are the same before and after the call.
C20_AggregateReadOnly ==
    [][last'.op = "aggregate" => tables' = tables]_vars

\* an aggregate whose first stage sorts, on an indexed table whose records
\* are not in that order: the result is reordered
C20_Witness ==
    /\ last.op = "aggregate"
    /\ Len(last.arg) >= 1
    /\ last.arg[1]["$sort"] # Undefined
    /\ Len(last.arg) = 1
    /\ Len(tables[last.h.name].records) = 2
    /\ "k" \in DOMAIN tables[last.h.name].indexes
    /\ Len(last.ret) = 2
    /\ last.ret # tables[last.h.name].records

\* ---- SpecPipeline: aggregate as a function of the table and the pipeline.
\* The table holds up to MaxItems records in insertion order, k counting from
\* 1 and data alternating between two categories; pipelines are made of
\* $skip, $limit and $group stages.
MaxItems == 5
PipelineRecords(n) ==
    [i \in 1..n |->
        NewRecord(GenId(i),
                  MkDoc(Num(i), Str(IF i % 2 = 1 THEN "a" ELSE "b"), Undefined), 0)]
SliceStages ==
    {Stage(Undefined, Undefined, Undefined, Num(k), Undefined) : k \in {0, 2}}
    \cup {Stage(Undefined, Undefined, Num(n), Undefined, Undefined) : n \in {0, 3}}
GroupStages ==
    {Stage(Undefined, Undefined, Undefined, Undefined, Obj("_id" :> Str("data"))),
     Stage(Undefined, Undefined, Undefined, Undefined,
           Obj(("_id" :> Str("data")) @@ ("total" :> Obj("$sum" :> Str("k")))
               @@ ("avg" :> Obj("$avg" :> Str("k"))) @@ ("min" :> Obj("$min" :> Str("k")))
               @@ ("max" :> Obj("$max" :> Str("k"))) @@ ("n" :> Obj("$count" :> Bool(TRUE)))))}
SlicePipelines ==
    UNION {{p \in [1..n -> SliceStages \cup GroupStages] :
                \A i, j \in 1..n : i # j => p[i] # p[j]} : n \in 0..MaxStages}

InitPipeline ==
    /\ ver = "binary"
    /\ \E n \in 0..MaxItems :
        /\ tables = ("users" :> [NewTable EXCEPT !.records = PipelineRecords(n)])
        /\ nextId = n + 1
    /\ disk = tables
    /\ blobs = [n \in TableNames |-> EmptyObj]
    /\ contents = [n \in TableNames |-> {}]
    /\ handles = {[name |-> "users", schema |-> "none"]}
    /\ now = 0
    /\ last = Result("connect", "", "", "ok", "")
    /\ written = <<>>
    /\ tasks = <<>>

NextPipeline == \E h \in handles, p \in SlicePipelines : Aggregate(h, p)

SpecPipeline == InitPipeline /\ [][NextPipeline]_vars

\* a stage that has the one key named, and its operand
OnlyKey(stage, key) ==
    /\ stage[key] # Undefined
    /\ \A other \in DOMAIN stage \ {key} : stage[other] = Undefined

\* the elements of s at positions from..to that s has
Slice(s, from, to) == SubSeq(s, from, IF to < Len(s) THEN to ELSE Len(s))

\* C21: stages are applied in input order, each on the previous stage's
\* output: $skip k then $limit n yields the records at positions k+1..k+n,
\* $limit n then $skip k yields positions k+1..n.
C21_StageOrder ==
    (last.op = "aggregate" /\ Len(last.arg) = 2) =>
        LET records == tables[last.h.name].records
            first == last.arg[1]
            second == last.arg[2]
        IN /\ (OnlyKey(first, "$skip") /\ OnlyKey(second, "$limit")) =>
                LET k == first["$skip"][2]
                    n == second["$limit"][2]
                IN last.ret = Slice(records, k + 1, k + n)
           /\ (OnlyKey(first, "$limit") /\ OnlyKey(second, "$skip")) =>
                LET k == second["$skip"][2]
                    n == first["$limit"][2]
                IN last.ret = Slice(records, k + 1, n)

\* C30: a $limit n stage keeps the first min(n, length) records for every
\* n >= 0, n = 0 included, and a $skip k stage drops the first
\* min(k, length) records for every k >= 0.
C30_SliceBounds ==
    (last.op = "aggregate" /\ Len(last.arg) = 1) =>
        LET records == tables[last.h.name].records
            stage == last.arg[1]
            Least(a, b) == IF a < b THEN a ELSE b
        IN /\ OnlyKey(stage, "$limit") =>
                last.ret = SubSeq(records, 1, Least(stage["$limit"][2], Len(records)))
           /\ OnlyKey(stage, "$skip") =>
                last.ret = SubSeq(records, Least(stage["$skip"][2], Len(records)) + 1,
                                  Len(records))

\* the sum of the numbers a sequence of values holds
RECURSIVE SumOf(_)
SumOf(values) == IF values = <<>> THEN 0 ELSE Head(values)[2] + SumOf(Tail(values))

C23_Accumulators ==
    (last.op = "aggregate" /\ Len(last.arg) = 1 /\ OnlyKey(last.arg[1], "$group")) =>
        LET decl == last.arg[1]["$group"][2]
            out == last.ret
            Values(i, field) ==
                LET docs == out[i]["docs"][2]
                IN [j \in 1..Len(docs) |-> docs[j][field]]
            Computed(i, acc, v) ==
                LET op == CHOOSE o \in DOMAIN acc : TRUE
                    xs == Values(i, acc[op][2])
                    nums == {xs[j][2] : j \in 1..Len(xs)}
                IN CASE op = "$sum" -> v = Num(SumOf(xs))
                     [] op = "$avg" -> v[1] = "number" /\ v[2] * Len(xs) = SumOf(xs)
                     [] op = "$min" -> v[1] = "number" /\ v[2] \in nums
                                        /\ \A x \in nums : v[2] <= x
                     [] op = "$max" -> v[1] = "number" /\ v[2] \in nums
                                        /\ \A x \in nums : v[2] >= x
                     [] op = "$count" -> v = Num(Len(out[i]["docs"][2]))
        IN \A i \in 1..Len(out) : \A name \in DOMAIN decl \ {"_id"} :
                /\ name \in DOMAIN out[i]
                /\ Computed(i, decl[name][2], out[i][name])

\* ---- SpecMime: inserts of payloads with and without a signature, of two
\* to four bytes and shorter, into a table whose binary field admits them.
MimePayloads ==
    {<<255, 216>>, <<255, 216, 65>>, <<255, 216, 65, 66>>, <<137, 80, 65, 66>>,
     <<71, 73, 65, 66>>, <<37, 80, 65, 66>>, <<255>>, <<65, 66, 67, 68>>}
MimeDocs == {MkDoc(Num(1), Buf(b), Undefined) : b \in MimePayloads}

NextMime ==
    \/ Table(ReadHandle)
    \/ \E h \in handles, d \in MimeDocs : InsertBinary(h, d, now)

SpecMime == Init /\ [][NextMime]_vars

\* the type the table of signatures gives to the two leading bytes
Signature(bytes) ==
    IF Len(bytes) < 2 THEN "application/octet-stream"
    ELSE CASE SubSeq(bytes, 1, 2) = <<255, 216>> -> "image/jpeg"
           [] SubSeq(bytes, 1, 2) = <<137, 80>> -> "image/png"
           [] SubSeq(bytes, 1, 2) = <<71, 73>> -> "image/gif"
           [] SubSeq(bytes, 1, 2) = <<37, 80>> -> "application/pdf"
           [] OTHER -> "application/octet-stream"

\* C24: the MIME type recorded for a stored payload is determined by its two
\* leading bytes alone, for payloads of every length; payloads without a
\* signature, or shorter than two bytes, get application/octet-stream.
C24_MimeBySignature ==
    (last.op = "insert" /\ last.status = "ok" /\ last.arg["data"][1] = "buffer") =>
        last.ret["data_metadata"][2].mimeType = Signature(last.arg["data"][2])

\* ---- SpecForeign: both engines on users and posts; posts.k may be made a
\* foreign key into users.k before or after records exist, and records of
\* either table may be deleted.
ForeignDocs == {MkDoc(Num(k), Undefined, Undefined) : k \in {1, 2}}
ForeignQueries == {EmptyObj, "k" :> Num(1)}

NextForeign ==
    \/ \E h \in {Users, Posts} : Table(h)
    \/ AddForeignKey(Posts, "k", "users", "k")
    \/ \E h \in handles, d \in ForeignDocs : InsertBinary(h, d, now)
    \/ \E h \in handles, d \in ForeignDocs : InsertEarlier(h, d, now)
    \/ \E h \in handles, q \in ForeignQueries : Delete(h, q)

SpecForeign == InitKeys /\ [][NextForeign]_vars

\* C25: addForeignKey is not retroactive: registering a constraint never
\* fails and never changes the records of any table, whatever they hold;
\* and a delete is never refused for a referenced record: it removes the
\* records its query matches and leaves the records of other tables, the
\* referencing ones included, in place.
C25_NotRetroactive ==
    [][/\ last'.op = "addForeignKey" =>
            /\ last'.status = "ok"
            /\ \A n \in DOMAIN tables :
                    /\ tables'[n].records = tables[n].records
                    /\ tables'[n].indexes = tables[n].indexes
       /\ last'.op = "delete" =>
            LET n == last'.h.name
                Kept(record) == ~MatchesQuery(record, last'.arg)
            IN /\ last'.status = "ok"
               /\ tables'[n].records = SelectSeq(tables[n].records, Kept)
               /\ \A m \in DOMAIN tables \ {n} : tables'[m] = tables[m]
    ]_vars

\* a delete removed the users record that a posts record refers to through
\* the registered foreign key, and the posts record is still there
C25_Witness ==
    /\ last.op = "delete"
    /\ last.h.name = "users"
    /\ last.arg = ("k" :> Num(1))
    /\ last.ret = 1
    /\ "posts" \in DOMAIN tables
    /\ "k" \in DOMAIN tables["posts"].foreignKeys
    /\ \E i \in 1..Len(tables["posts"].records) : tables["posts"].records[i]["k"] = Num(1)

\* ---- SpecIndex: the binary-storage engine on posts (k a number or
\* missing, data a payload or missing) with indexes on k and on data created
\* at any moment; an update leaves an index behind the records, a delete
\* moves records to lower positions.
IndexedFields == {"k", "data"}
IndexDocs(name) ==
    {MkDoc(k, Undefined, Undefined) : k \in {Undefined, Num(1), Num(2)}}
    \cup {MkDoc(Num(1), Buf(<<65>>), Undefined)}
    \cup {MkDoc(Num(2), Undefined, id) : id \in IdsOf(name)}

NextIndex ==
    \/ Table(Posts)
    \/ \E h \in handles, f \in IndexedFields : CreateIndex(h, f)
    \/ \E h \in handles : \E d \in IndexDocs(h.name) : InsertBinary(h, d, now)
    \/ \E h \in handles : Update(h, "k" :> Num(1), MkPatch(Num(2), Undefined, Undefined), now)
    \/ \E h \in handles : Delete(h, "k" :> Num(1))

SpecIndex == Init /\ [][NextIndex]_vars

\* C26: a successful insert appends exactly one record: the count grows by
\* one, the new record is last and carries the document's fields (a payload
\* as its reference) plus _id and createdAt, every earlier record keeps its
\* position and values, and in every index the old length is appended to the
\* bucket of the new record's value and no other bucket changes.
C26_InsertAppends ==
    [][(last'.op = "insert" /\ last'.status = "ok") =>
        LET n == last'.h.name
            doc == last'.arg
            old == tables[n]
            new == tables'[n]
            record == new.records[Len(new.records)]
        IN /\ Len(new.records) = Len(old.records) + 1
           /\ \A i \in 1..Len(old.records) : new.records[i] = old.records[i]
           /\ record = last'.ret
           /\ \A f \in {"k", "updatedAt"} : record[f] = doc[f]
           /\ record["data"] = IF doc["data"][1] = "buffer"
                               THEN Str("binary:" \o Sha256(doc["data"][2]))
                               ELSE doc["data"]
           /\ record["_id"] # Undefined
           /\ doc["_id"] # Undefined => record["_id"] = doc["_id"]
           /\ record["createdAt"] # Undefined
           /\ DOMAIN new.indexes = DOMAIN old.indexes
           /\ \A f \in DOMAIN old.indexes :
                LET key == ToKey(record[f])
                    bucket == IF key \in DOMAIN old.indexes[f]
                              THEN old.indexes[f][key] ELSE <<>>
                IN /\ DOMAIN new.indexes[f] = DOMAIN old.indexes[f] \cup {key}
                   /\ new.indexes[f][key] = Append(bucket, Len(old.records))
                   /\ \A other \in DOMAIN old.indexes[f] \ {key} :
                        new.indexes[f][other] = old.indexes[f][other]
    ]_vars

\* an insert into an indexed table that already held a record of the same k:
\* the bucket of that k now has two positions
C26_Witness ==
    /\ last.op = "insert"
    /\ last.status = "ok"
    /\ Len(tables[last.h.name].records) = 2
    /\ "k" \in DOMAIN tables[last.h.name].indexes
    /\ ToKey(last.ret["k"]) \in DOMAIN tables[last.h.name].indexes["k"]
    /\ Len(tables[last.h.name].indexes["k"][ToKey(last.ret["k"])]) = 2

\* the positions of a bucket go up strictly
Ascending(bucket) == \A i, j \in 1..Len(bucket) : i < j => bucket[i] < bucket[j]

\* C27: createIndex(field) on any table state builds an index that is
\* consistent with the current records (records lacking the field included),
\* every bucket strictly ascending; it leaves the records and the other
\* indexes as they were, and called again on the same field it gives the
\* same index.
C27_CreateIndex ==
    [][last'.op = "createIndex" =>
        LET n == last'.h.name
            f == last'.arg
            old == tables[n]
            new == tables'[n]
        IN /\ new.records = old.records
           /\ DOMAIN new.indexes = DOMAIN old.indexes \cup {f}
           /\ \A g \in DOMAIN old.indexes \ {f} : new.indexes[g] = old.indexes[g]
           /\ IndexConsistent(new, f)
           /\ \A key \in DOMAIN new.indexes[f] : Ascending(new.indexes[f][key])
           /\ (last.op = "createIndex" /\ last.h = last'.h /\ last.arg = f)
                => tables' = tables
    ]_vars

\* createIndex on k replaced an index that an update had left behind, on a
\* table with two records, while the index on data stayed
C27_Witness ==
    /\ last.op = "createIndex"
    /\ last.arg = "k"
    /\ Len(tables[last.h.name].records) = 2
    /\ "data" \in DOMAIN tables[last.h.name].indexes
    /\ \E i \in 1..2 : tables[last.h.name].records[i]["updatedAt"] # Undefined
    /\ \E i \in 1..2 : tables[last.h.name].records[i]["k"] = Undefined

\* the positions, from 1, of the records that satisfy the matcher
Matching(records, query) == {i \in 1..Len(records) : MatchesQuery(records[i], query)}
\* the least of a non-empty set of positions
First(S) == CHOOSE i \in S : \A j \in S : i <= j
\* records without the one at position p
Without(records, p) == SubSeq(records, 1, p - 1) \o SubSeq(records, p + 1, Len(records))

\* C28: deleteOne(query) removes at most one record: when some record
\* satisfies the matcher it removes exactly the first such record and
\* returns 1, otherwise it returns 0 and leaves the table unchanged; the
\* number returned is the number of records removed.
C28_DeleteOneExact ==
    [][last'.op = "deleteOne" =>
        LET n == last'.h.name
            old == tables[n].records
            new == tables'[n].records
            matched == Matching(old, last'.arg)
        IN /\ last'.ret = Len(old) - Len(new)
           /\ IF matched = {}
              THEN last'.ret = 0 /\ tables' = tables
              ELSE last'.ret = 1 /\ new = Without(old, First(matched))
    ]_vars

\* C29: updateOne(query, patch) changes at most one record: when some record
\* satisfies the matcher and the merged record is valid, the first such
\* record gets the patch and updatedAt and every other record is unchanged;
\* when none does, or validation fails, no record is changed.
C29_UpdateOneExact ==
    [][last'.op = "updateOne" =>
        LET h == last'.h
            query == last'.arg[1]
            patch == last'.arg[2]
            old == tables[h.name].records
            new == tables'[h.name].records
            matched == Matching(old, query)
            Merged(i) == [f \in Fields |->
                            IF patch[f] # Undefined THEN patch[f] ELSE old[i][f]]
        IN /\ Len(new) = Len(old)
           /\ IF matched = {} \/ Invalid(h, Merged(First(matched)))
              THEN new = old
              ELSE /\ \A i \in 1..Len(old) : i # First(matched) => new[i] = old[i]
                   /\ new[First(matched)]["updatedAt"] # Undefined
                   /\ \A f \in Fields \ {"updatedAt"} :
                        new[First(matched)][f] = Merged(First(matched))[f]
    ]_vars

\* ---- SpecSort: the $sort stage on a schema-less table whose records have
\* k as a small number or do not have it, sorted by k in either direction.
MaxSortItems == 3
SortValues == {Undefined, Num(1), Num(2)}
SortRecords(ks) ==
    [i \in 1..Len(ks) |-> NewRecord(GenId(i), MkDoc(ks[i], Undefined, Undefined), 0)]
SortStages ==
    {Stage(Undefined, Obj("k" :> Num(o)), Undefined, Undefined, Undefined) :
        o \in {1, 0 - 1}}

InitSort ==
    /\ ver = "binary"
    /\ \E n \in 0..MaxSortItems : \E ks \in [1..n -> SortValues] :
        /\ tables = ("users" :> [NewTable EXCEPT !.records = SortRecords(ks)])
        /\ nextId = n + 1
    /\ disk = tables
    /\ blobs = [n \in TableNames |-> EmptyObj]
    /\ contents = [n \in TableNames |-> {}]
    /\ handles = {Plain}
    /\ now = 0
    /\ last = Result("connect", "", "", "ok", "")
    /\ written = <<>>
    /\ tasks = <<>>

NextSort == \E h \in handles, stage \in SortStages : Aggregate(h, <<stage>>)

SpecSort == InitSort /\ [][NextSort]_vars

\* whether out holds the elements of in, each as often as in holds it
PermutationOf(out, in) ==
    /\ Len(out) = Len(in)
    /\ \A x \in SeqRange(in) \cup SeqRange(out) :
        Cardinality({i \in 1..Len(out) : out[i] = x})
            = Cardinality({i \in 1..Len(in) : in[i] = x})

\* the position of the record of this _id in s
PlaceOf(s, id) == CHOOSE i \in 1..Len(s) : s[i]["_id"] = id

\* C31: a $sort stage returns the table's records reordered: a permutation
\* of them in which no record comes after one with a greater value of the
\* sort field (direction 1) or a smaller one (direction -1), and in which
\* records of equal value stand in the order they had before.
C31_StableSort ==
    (last.op = "aggregate" /\ Len(last.arg) = 1 /\ OnlyKey(last.arg[1], "$sort")) =>
        LET sortField == CHOOSE f \in DOMAIN last.arg[1]["$sort"][2] : TRUE
            sortOrder == last.arg[1]["$sort"][2][sortField][2]
            in == tables[last.h.name].records
            out == last.ret
            V(s, i) == Prop(s[i], sortField)
        IN /\ PermutationOf(out, in)
           /\ \A i, j \in 1..Len(out) : i < j =>
                IF sortOrder = 1 THEN ~Below(V(out, j), V(out, i))
                ELSE ~Below(V(out, i), V(out, j))
           /\ \A i, j \in 1..Len(in) : (i < j /\ V(in, i) = V(in, j)) =>
                PlaceOf(out, in[i]["_id"]) < PlaceOf(out, in[j]["_id"])

\* ---- SpecCompare: the ordered comparisons on a table without a schema
\* whose records hold in k a number, a string, null or nothing, under
\* queries of one ordered operator with a number or a string as operand.
CompareDocs ==
    {MkDoc(v, Undefined, Undefined) : v \in {Undefined, Null, Num(1), Str("1"), Str("a")}}
Ordered == {"$gt", "$gte", "$lt", "$lte"}
CompareQueries ==
    {"k" :> Obj(op :> val) : op \in Ordered, val \in {Num(0), Num(1), Str("b")}}

NextCompare ==
    \/ Table(Plain)
    \/ \E h \in handles, d \in CompareDocs : InsertBinary(h, d, now)
    \/ \E h \in handles, q \in CompareQueries :
            \E i \in 1..Len(tables[h.name].records) : MatchesQueryOp(h, i, q)
    \/ \E h \in handles, q \in CompareQueries : FindOp(h, q)

SpecCompare == Init /\ [][NextCompare]_vars

\* C32: an ordered comparison never matches where no ordering is defined:
\* under a query of $gt, $gte, $lt or $lte on a field, a record that lacks
\* the field, or holds in it null or a value of another kind than the
\* operand, does not match.
C32_NoOrderNoMatch ==
    (/\ last.op = "_matchesQuery"
     /\ \E op \in Ordered : DOMAIN last.arg.query["k"][2] = {op}) =>
        LET op == CHOOSE o \in Ordered : o \in DOMAIN last.arg.query["k"][2]
            val == last.arg.query["k"][2][op]
            fv == last.arg.record["k"]
        IN (fv = Undefined \/ fv = Null \/ fv[1] # val[1]) => last.ret = Bool(FALSE)

\* C33: persistence follows every mutation: between operations, after any
\* of them has returned or failed and after a table was created by first
\* reference, the snapshot last written equals the database in memory.
C33_PersistenceFollows == disk = tables

\* -------------------------------------------------------- suspended calls
\* Calls issued without awaiting the previous one.  A call runs until it
\* awaits, is kept in tasks and runs on when it is resumed; between two
\* awaits it runs alone.  pc is the await it is suspended at: "storing" in
\* _storeBinaryData, "saving" at the fs.mkdir of db.save(), "written" at the
\* fs.writeFile of db.save().
MaxTasks == 2

Suspended(op, h, arg, pc, done, ret) ==
    [op |-> op, h |-> h, arg |-> arg, pc |-> pc, done |-> done, ret |-> ret]

TasksWithout(i) == SubSeq(tasks, 1, i - 1) \o SubSeq(tasks, i + 1, Len(tasks))

\* Table.insert(data) up to await this._storeBinaryData(data)
InsertCall(h, data) ==
    /\ ver = "binary"
    /\ h \in handles
    /\ Len(tasks) < MaxTasks
    /\ IF ValidateData(ver, h, data) # {}
       THEN /\ last' = Result("insert", h, data, "ValidationError", "")
            /\ tasks' = tasks
       ELSE /\ tasks' = Append(tasks, Suspended("insert", h, data, "storing", 0, ""))
            /\ UNCHANGED last
    /\ written' = <<>>
    /\ UNCHANGED <<ver, tables, blobs, contents, disk, handles, nextId, now>>

\* Table.insert from the return of _storeBinaryData to the await in
\* db.save(): the record is pushed and every index updated
InsertResume(i) ==
    /\ i \in 1..Len(tasks)
    /\ tasks[i].op = "insert" /\ tasks[i].pc = "storing"
    /\ nextId <= MaxRecords
    /\ LET h == tasks[i].h
           st == StoreBinaryData(h, tasks[i].arg, blobs[h.name])
           record == NewRecord(GenId(nextId), st.processedData, now)
       IN /\ blobs' = [blobs EXCEPT ![h.name] = st.dir]
          /\ contents' = [contents EXCEPT ![h.name] = @ \cup st.put]
          /\ written' = st.writes
          /\ tables' = [tables EXCEPT ![h.name] = PushRecord(@, record)]
          /\ tasks' = [tasks EXCEPT ![i].pc = "saving", ![i].ret = record]
    /\ nextId' = nextId + 1
    /\ UNCHANGED <<ver, disk, handles, now, last>>

\* Table.insertMany(documents) up to the first await of the insertion pass
InsertManyCall(h, docs) ==
    /\ ver = "binary"
    /\ h \in handles
    /\ Len(tasks) < MaxTasks
    /\ LET tbl == tables[h.name]
       IN IF ValidationPassFails(h, docs)
          THEN /\ last' = Result("insertMany", h, docs, "ValidationError", "")
               /\ UNCHANGED <<tables, tasks>>
          ELSE IF \E i \in 1..Len(docs) : CheckedKeys(tbl, docs[i]) # {}
          THEN /\ tables' = EnsureReferenced(tables, tbl, docs[FirstChecked(tbl, docs)])
               /\ last' = Result("insertMany", h, docs, "TypeError", "")
               /\ UNCHANGED tasks
          ELSE /\ tasks' = Append(tasks, Suspended("insertMany", h, docs, "storing", 0, <<>>))
               /\ UNCHANGED <<tables, last>>
    /\ written' = <<>>
    /\ UNCHANGED <<ver, blobs, contents, disk, handles, nextId, now>>

\* an insertion pass that saves after every document
InsertManyResume_SavingEach(i) ==
    /\ i \in 1..Len(tasks)
    /\ tasks[i].op = "insertMany" /\ tasks[i].pc = "storing"
    /\ nextId <= MaxRecords
    /\ LET h == tasks[i].h
           done == tasks[i].done + 1
           st == StoreBinaryData(h, tasks[i].arg[done], blobs[h.name])
           record == NewRecord(GenId(nextId), st.processedData, now)
       IN /\ blobs' = [blobs EXCEPT ![h.name] = st.dir]
          /\ contents' = [contents EXCEPT ![h.name] = @ \cup st.put]
          /\ written' = st.writes
          /\ tables' = [tables EXCEPT ![h.name] = PushRecord(@, record)]
          /\ disk' = tables'
          /\ tasks' = [tasks EXCEPT ![i].done = done,
                                    ![i].ret = Append(@, record),
                                    ![i].pc = IF done = Len(tasks[i].arg) THEN "saving"
                                              ELSE "storing"]
    /\ nextId' = nextId + 1
    /\ UNCHANGED <<ver, handles, now, last>>

\* one iteration of the insertion pass of insertMany, from the return of
\* _storeBinaryData to the next await
InsertManyResume(i) ==
    /\ i \in 1..Len(tasks)
    /\ tasks[i].op = "insertMany" /\ tasks[i].pc = "storing"
    /\ nextId <= MaxRecords
    /\ LET h == tasks[i].h
           done == tasks[i].done + 1
           st == StoreBinaryData(h, tasks[i].arg[done], blobs[h.name])
           record == NewRecord(GenId(nextId), st.processedData, now)
       IN /\ blobs' = [blobs EXCEPT ![h.name] = st.dir]
          /\ contents' = [contents EXCEPT ![h.name] = @ \cup st.put]
          /\ written' = st.writes
          /\ tables' = [tables EXCEPT ![h.name] = PushRecord(@, record)]
          /\ tasks' = [tasks EXCEPT ![i].done = done,
                                    ![i].ret = Append(@, record),
                                    ![i].pc = IF done = Len(tasks[i].arg) THEN "saving"
                                              ELSE "storing"]
    /\ nextId' = nextId + 1
    /\ UNCHANGED <<ver, disk, handles, now, last>>

\* _storeBinaryData rejects: fs.writeFile fails for the payload of the
\* document the call is at, and the call throws; the result kept in last is
\* the ordinal of that document
WriteFails(i) ==
    /\ i \in 1..Len(tasks)
    /\ tasks[i].pc = "storing"
    /\ LET h == tasks[i].h
           data == IF tasks[i].op = "insertMany" THEN tasks[i].arg[tasks[i].done + 1]
                   ELSE tasks[i].arg
           st == StoreBinaryData(h, data, blobs[h.name])
       IN /\ st.writes # <<>>
          /\ contents' = [contents EXCEPT ![h.name] = @ \cup st.put]
          /\ written' = st.writes
          /\ last' = Result(tasks[i].op, h, tasks[i].arg, "WriteError", tasks[i].done + 1)
    /\ tasks' = TasksWithout(i)
    /\ UNCHANGED <<ver, tables, blobs, disk, handles, nextId, now>>

\* Table.delete(query) up to the await in db.save(): the records are
\* filtered and every index rebuilt
DeleteCall(h, query) ==
    /\ h \in handles
    /\ Len(tasks) < MaxTasks
    /\ tables' = [tables EXCEPT ![h.name] = DeleteFrom(@, query)]
    /\ tasks' = Append(tasks, Suspended("delete", h, query, "saving", 0,
                                        Len(tables[h.name].records)))
    /\ written' = <<>>
    /\ UNCHANGED <<ver, blobs, contents, disk, handles, nextId, now, last>>

\* Table.createIndex(field) up to the await in db.save()
CreateIndexCall(h, field) ==
    /\ h \in handles
    /\ Len(tasks) < MaxTasks
    /\ LET idx == BuildIndex(tables[h.name].records, field)
       IN tables' = [tables EXCEPT ![h.name].indexes =
                        [f \in DOMAIN @ \cup {field} |-> IF f = field THEN idx ELSE @[f]]]
    /\ tasks' = Append(tasks, Suspended("createIndex", h, field, "saving", 0, ""))
    /\ written' = <<>>
    /\ UNCHANGED <<ver, blobs, contents, disk, handles, nextId, now, last>>

\* FlatDB.save() from the return of fs.mkdir: the data as it is now is
\* serialized and handed to fs.writeFile
SaveWrite(i) ==
    /\ i \in 1..Len(tasks)
    /\ tasks[i].pc = "saving"
    /\ disk' = tables
    /\ tasks' = [tasks EXCEPT ![i].pc = "written"]
    /\ written' = <<>>
    /\ UNCHANGED <<ver, tables, blobs, contents, handles, nextId, now, last>>

\* the call returns after await this.db.save()
Return(i) ==
    /\ i \in 1..Len(tasks)
    /\ tasks[i].pc = "written"
    /\ last' = Result(tasks[i].op, tasks[i].h, tasks[i].arg, "ok",
                      IF tasks[i].op = "delete"
                      THEN tasks[i].ret - Len(tables[tasks[i].h.name].records)
                      ELSE tasks[i].ret)
    /\ tasks' = TasksWithout(i)
    /\ written' = <<>>
    /\ UNCHANGED <<ver, tables, blobs, contents, disk, handles, nextId, now>>

\* ---- SpecAsync: inserts, batches, deletes and index creations on posts
\* issued while earlier ones are suspended, resumed in any order.
AsyncDocs == {MkDoc(Num(1), Undefined, Undefined), MkDoc(Num(2), Buf(<<65>>), Undefined)}
AsyncBatches == {<<MkDoc(Num(1), Undefined, Undefined), MkDoc(Num(2), Buf(<<65>>), Undefined)>>}
AsyncQueries == {"k" :> Num(1)}

NextAsync ==
    \/ Table(Posts)
    \/ \E h \in handles, f \in IndexFields : CreateIndexCall(h, f)
    \/ \E h \in handles, d \in AsyncDocs : InsertCall(h, d)
    \/ \E h \in handles, b \in AsyncBatches : InsertManyCall(h, b)
    \/ \E h \in handles, q \in AsyncQueries : DeleteCall(h, q)
    \/ \E i \in 1..Len(tasks) : InsertResume(i)
    \/ \E i \in 1..Len(tasks) : InsertManyResume(i)
    \/ \E i \in 1..Len(tasks) : SaveWrite(i)
    \/ \E i \in 1..Len(tasks) : Return(i)

SpecAsync == Init /\ [][NextAsync]_vars

\* C34: the index update follows the append without a suspension between
\* them, and the rebuild follows the filter of delete likewise: at every
\* point where a call can run, whatever calls are suspended, every index of
\* every table holds exactly the positions of the table's records.
C34_NoTornIndex ==
    \A n \in DOMAIN tables : \A f \in DOMAIN tables[n].indexes :
        IndexConsistent(tables[n], f)

\* a batch suspended after its first document, with a delete issued since
\* that removed this document, on a table that has an index
C34_Witness ==
    /\ Len(tasks) = 2
    /\ tasks[1].op = "insertMany" /\ tasks[1].pc = "storing" /\ tasks[1].done = 1
    /\ tasks[2].op = "delete"
    /\ "posts" \in DOMAIN tables
    /\ "k" \in DOMAIN tables["posts"].indexes
    /\ tables["posts"].records = <<>>

\* ---- SpecBatch: one caller who awaits every call, batches on posts whose
\* documents have a payload or none, and a file system whose writes can fail.
BatchDocs ==
    {MkDoc(Num(1), Undefined, Undefined), MkDoc(Num(2), Buf(<<65>>), Undefined)}
WriteBatches == UNION {[1..n -> BatchDocs] : n \in 1..MaxRecords}

NextBatch ==
    \/ tasks = <<>> /\ Table(Posts)
    \/ tasks = <<>> /\ \E h \in handles, f \in IndexFields : CreateIndex(h, f)
    \/ tasks = <<>> /\ \E h \in handles, b \in WriteBatches : InsertManyCall(h, b)
    \/ \E i \in 1..Len(tasks) : InsertManyResume(i)
    \/ \E i \in 1..Len(tasks) : WriteFails(i)
    \/ \E i \in 1..Len(tasks) : SaveWrite(i)
    \/ \E i \in 1..Len(tasks) : Return(i)

SpecBatch == Init /\ [][NextBatch]_vars

\* whether record is what insertMany stores for the document data
StoredFrom(record, data) ==
    /\ record["k"] = data["k"]
    /\ IF data["data"] = Undefined THEN record["data"] = Undefined
       ELSE record["data"] = Str("binary:" \o Sha256(data["data"][2]))

\* C35: when the blob write for the k-th document of a batch fails, the
\* table ends with the records of the first k-1 documents, in order, every
\* index consistent with the records, no record of a later document, and
\* the snapshot holds no record of the batch.
C35_PartialBatch ==
    [][(last'.op = "insertMany" /\ last'.status = "WriteError" /\ tasks # <<>>
            /\ tasks' = <<>>) =>
        LET docs == last'.arg
            k == last'.ret
            name == last'.h.name
            recs == tables'[name].records
            from == Len(recs) - (k - 1)
            batch == {recs[j]["_id"] : j \in (from + 1)..Len(recs)}
            saved == IF name \in DOMAIN disk' THEN disk'[name].records ELSE <<>>
        IN /\ from >= 0
           /\ \A j \in 1..(k - 1) : StoredFrom(recs[from + j], docs[j])
           /\ tasks[1].ret = SubSeq(recs, from + 1, Len(recs))
           /\ nextId' = nextId
           /\ \A f \in DOMAIN tables'[name].indexes : IndexConsistent(tables'[name], f)
           /\ disk' = disk
           /\ \A j \in 1..Len(saved) : saved[j]["_id"] \notin batch]_vars

\* a batch of two failed at its second document on a table with an index
C35_Witness ==
    /\ last.op = "insertMany" /\ last.status = "WriteError" /\ last.ret = 2
    /\ tasks = <<>>
    /\ "k" \in DOMAIN tables["posts"].indexes
    /\ Len(tables["posts"].records) = MaxRecords
    /\ Len(disk["posts"].records) = MaxRecords - 1

\* C36: a record inserted with a stored binary field stays updatable: an
\* update or updateOne whose patch sets only k, to a value the schema
\* accepts, on records that hold a content reference succeeds, sets k in
\* the records it is applied to and leaves their content reference as it was.
C36_StaysUpdatable ==
    [][(/\ last'.op \in {"update", "updateOne"}
        /\ last'.arg[2]["data"] = Undefined
        /\ last'.arg[2]["k"] # Undefined
        /\ Scan(tables[last'.h.name].records, last'.arg[1]) # <<>>
        /\ \A i \in 1..Len(tables[last'.h.name].records) :
                MatchesQuery(tables[last'.h.name].records[i], last'.arg[1]) =>
                    tables[last'.h.name].records[i]["data"][1] = "string") =>
        LET old == tables[last'.h.name].records
            new == tables'[last'.h.name].records
            matched == {i \in 1..Len(old) : MatchesQuery(old[i], last'.arg[1])}
            applied == IF last'.op = "update" THEN matched
                       ELSE {CHOOSE i \in matched : \A j \in matched : i <= j}
        IN /\ last'.status = "ok"
           /\ \A i \in applied :
                /\ new[i]["k"] = last'.arg[2]["k"]
                /\ new[i]["data"] = old[i]["data"]
    ]_vars

\* ---- SpecBlob: posts under every mutating operation, with documents and
\* patches that carry a payload or none.
BlobDocs == {MkDoc(Num(1), Undefined, Undefined), MkDoc(Num(1), Buf(<<65>>), Undefined)}
BlobBatches == {<<d>> : d \in BlobDocs}
BlobPatches ==
    {MkPatch(Num(2), Undefined, Undefined),
     [MkPatch(Undefined, Undefined, Undefined) EXCEPT !["data"] = Buf(<<66>>)]}
BlobQueries == {EmptyObj, "k" :> Num(1)}

NextBlob ==
    \/ Table(Posts)
    \/ \E h \in handles, d \in BlobDocs : InsertBinary(h, d, now)
    \/ \E h \in handles, b \in BlobBatches : InsertManyBinary(h, b, now)
    \/ \E h \in handles, u \in BlobPatches, q \in BlobQueries : Update(h, q, u, now)
    \/ \E h \in handles, u \in BlobPatches, q \in BlobQueries : UpdateOne(h, q, u, now)
    \/ \E h \in handles, q \in BlobQueries : Delete(h, q)
    \/ \E h \in handles, q \in BlobQueries : DeleteOne(h, q)

SpecBlob == Init /\ [][NextBlob]_vars

\* every record of posts that has a value in data holds a reference to a
\* blob of the directory, described by the record's data_metadata
ReferencesIntact(tbls, dirs) ==
    "posts" \in DOMAIN tbls =>
        \A i \in 1..Len(tbls["posts"].records) :
            LET record == tbls["posts"].records[i]
            IN record["data"] # Undefined =>
                /\ record["data"][1] = "string"
                /\ Len(record["data"][2]) > 7
                /\ SubSeq(record["data"][2], 1, 7) = "binary:"
                /\ LET digest == SubSeq(record["data"][2], 8, Len(record["data"][2]))
                   IN /\ digest \in DOMAIN dirs["posts"]
                      /\ record["data_metadata"][1] = "object"
                      /\ record["data_metadata"][2].hash = digest
                      /\ record["data_metadata"][2].size = Len(dirs["posts"][digest])
                      /\ digest = Sha256(dirs["posts"][digest])

\* C37: blob reference integrity: after every insert, insertMany, update,
\* updateOne, delete and deleteOne every binary field that has a value holds
\* a content reference, never raw bytes, whose blob is in the store and is
\* described by the field's metadata; and no blob is removed.
C37_BlobIntegrity ==
    [][/\ ReferencesIntact(tables', blobs')
       /\ \A n \in DOMAIN blobs["posts"] :
            n \in DOMAIN blobs'["posts"] /\ blobs'["posts"][n] = blobs["posts"][n]
    ]_vars

\* ---- SpecTables: handles obtained for two table names under a schema and
\* under none, on tables that have or lack records, an index and a foreign key.
TableHandles ==
    {Users, Plain, Posts, [name |-> "posts", schema |-> "none"]}
TableDocs == {MkDoc(Num(k), Undefined, Undefined) : k \in {1, 2}}

NextTables ==
    \/ \E h \in TableHandles : Table(h)
    \/ \E h \in handles, f \in IndexFields : CreateIndex(h, f)
    \/ AddForeignKey(Posts, "k", "users", "k")
    \/ \E h \in handles, d \in TableDocs : InsertBinary(h, d, now)

SpecTables == Init /\ [][NextTables]_vars

\* C38: a handle obtained for a name that has no table creates the table
\* empty, without records, indexes or foreign keys; a handle obtained for a
\* name that has one, under any schema or none, leaves that table as it is;
\* either way every other table stays as it is.
C38_CreatedOnceNeverReset ==
    [][last'.op = "table" =>
        LET name == last'.h.name
        IN /\ DOMAIN tables' = DOMAIN tables \cup {name}
           /\ \A n \in DOMAIN tables : tables'[n] = tables[n]
           /\ name \notin DOMAIN tables =>
                /\ tables'[name].records = <<>>
                /\ DOMAIN tables'[name].indexes = {}
                /\ DOMAIN tables'[name].foreignKeys = {}
    ]_vars

\* a handle without a schema obtained for posts while posts holds a record,
\* an index and a foreign key made through the handle with the schema
C38_Witness ==
    /\ last.op = "table"
    /\ last.h = [name |-> "posts", schema |-> "none"]
    /\ Posts \in handles
    /\ "users" \in DOMAIN tables
    /\ Len(tables["posts"].records) > 0
    /\ "k" \in DOMAIN tables["posts"].indexes
    /\ "k" \in DOMAIN tables["posts"].foreignKeys

\* Table.findOne(query): results[0] || null
FindOne(h, query) ==
    /\ h \in handles
    /\ LET found == Find(tables[h.name], query)
       IN last' = Result("findOne", h, query, "ok",
                         IF found = <<>> THEN Null ELSE found[1])
    /\ written' = <<>>
    /\ tasks' = tasks
    /\ UNCHANGED <<ver, tables, blobs, contents, disk, handles, nextId, now>>

\* Table.count(query)
Count(h, query) ==
    /\ h \in handles
    /\ last' = Result("count", h, query, "ok",
                      IF DOMAIN query = {} THEN Len(tables[h.name].records)
                      ELSE Len(Find(tables[h.name], query)))
    /\ written' = <<>>
    /\ tasks' = tasks
    /\ UNCHANGED <<ver, tables, blobs, contents, disk, handles, nextId, now>>

\* ---- SpecQuery: every read operation on posts, with and without an index,
\* on records with and without a payload, and an environment that may remove
\* blob files so that reads of content fail.
QueryDocs == {MkDoc(Num(1), Undefined, Undefined), MkDoc(Num(2), Buf(<<65>>), Undefined)}
ReadQueries == {EmptyObj, "k" :> Num(1), "k" :> Obj("$gt" :> Num(1))}
ContentQueries ==
    {Criteria(Undefined, Undefined, lo, Undefined, p) :
        lo \in {Undefined, Num(2)}, p \in {Undefined, Buf(<<65>>)}}

NextQuery ==
    \/ Table(Posts)
    \/ \E h \in handles, f \in IndexFields : CreateIndex(h, f)
    \/ \E h \in handles, d \in QueryDocs : InsertBinary(h, d, now)
    \/ \E n \in TableNames : \E file \in DOMAIN blobs[n] : RemoveBlob(n, file)
    \/ \E h \in handles, q \in ReadQueries : FindOp(h, q)
    \/ \E h \in handles, q \in ReadQueries : FindOne(h, q)
    \/ \E h \in handles, q \in ReadQueries : Count(h, q)
    \/ \E h \in handles : \E id \in IdsOf(h.name) \cup {Str("none")} : FindById(h, id)
    \/ \E h \in handles, q \in ContentQueries : SearchBinary(h, q)
    \/ \E h \in handles, f \in {"data"}, b \in {<<65>>, <<66>>} :
            FindSimilarBinary(h, f, b, [sizeTolerance |-> Undefined])

SpecQuery == Init /\ [][NextQuery]_vars

Reads == {"find", "findOne", "findById", "count", "searchBinary", "findSimilarBinary"}

\* C39: read operations have no effect on the database: find, findOne,
\* findById, count, searchBinary and findSimilarBinary, whether they return
\* records, nothing, or fail, leave the tables (their records, indexes and
\* foreign keys, and which tables there are) and the blob store as they were.
C39_ReadsChangeNothing ==
    [][last'.op \in Reads => (tables' = tables /\ blobs' = blobs /\ disk' = disk)]_vars

\* a read of content that failed on a table with a record and an index
C39_Witness ==
    /\ last.op = "searchBinary"
    /\ last.status = "ENOENT"
    /\ Len(tables["posts"].records) > 0
    /\ "k" \in DOMAIN tables["posts"].indexes

====
